---- MODULE Spec2Model ----
(***************************************************************************)
(* A model of the excel-processor worksheet engine                         *)
(* (src/src/lib/utils/excel-processor.ts): column reconciliation, the four *)
(* worksheet transforms and the batch orchestrator.                        *)
(*                                                                         *)
(* Values.  A JavaScript cell value is a record [t, s, n]:                 *)
(*   t = "str"   a string, its text in s (a TLA+ string);                  *)
(*   t = "num"   a number, n its value in thousandths (100 is 100000);     *)
(*   t = "undef" undefined (an absent cell or property).                   *)
(* A row is a sequence of cells, a grid a sequence of rows (row 1 is the   *)
(* header), a workbook a sequence of [name, grid] entries in key order and *)
(* a processed record a sequence of [k, v] pairs in key insertion order.   *)
(* Indexes are 1-based; a findIndex that finds nothing yields 0 (JS: -1).  *)
(* Arithmetic is exact: the binary floating point of the source is not     *)
(* modelled.                                                               *)
(***************************************************************************)
EXTENDS Integers, Sequences, FiniteSets, TLC

VARIABLES
    files,              \* processExcelFiles: the input File list (names)
    idx,                \* processExcelFiles: index of the file in progress
    pc,                 \* position inside processExcelFiles/processExcelFile
    workbookData,       \* processExcelFile: what readExcelWorkbook returned
    updatedData,        \* processExcelFile: validateAndAddMissingColumns' grids
    validationResults,  \* processExcelFile: the ColumnValidationResult list
    processedData,      \* processExcelFile: what processWorksheets returned
    results,            \* processExcelFiles: the ProcessingResult list
    calls,              \* history: the steps run for the file in progress
    downloads,          \* history: the files handed to downloadFile
    fn,                 \* unit specifications: the function applied
    arg,                \* unit specifications: its argument
    ret,                \* unit specifications: its result
    hook                \* useExcelProcessor: its state and its calls in flight

vars == <<files, idx, pc, workbookData, updatedData, validationResults,
          processedData, results, calls, downloads, fn, arg, ret, hook>>

----------------------------------------------------------------------------
(* JavaScript values *)

Str(s) == [t |-> "str", s |-> s, n |-> 0]
Num(n) == [t |-> "num", s |-> "", n |-> n]
Whole(k) == Num(k * 1000)
Undef == [t |-> "undef", s |-> "", n |-> 0]
\* the numbers Infinity and -Infinity
Infinite(negative) ==
    [t |-> "inf", s |-> IF negative THEN "-Infinity" ELSE "Infinity", n |-> 0]
SN == Str("SN")

\* value ?? dflt
Coalesce(v, dflt) == IF v.t = "undef" THEN dflt ELSE v

\* row[index]: undefined outside the array (index 0 models JS -1)
At(row, i) == IF i >= 1 /\ i <= Len(row) THEN row[i] ELSE Undef

\* JS truthiness of a cell value
Truthy(v) ==
    CASE v.t = "str" -> v.s # ""
      [] v.t = "num" -> v.n # 0
      [] v.t = "inf" -> TRUE
      [] OTHER -> FALSE

----------------------------------------------------------------------------
(* Strings *)

UpperChars == "ABCDEFGHIJKLMNOPQRSTUVWXYZÁÉÍÓÚÑ"
LowerChars == "abcdefghijklmnopqrstuvwxyzáéíóúñ"
Digits == "0123456789"

\* s.charAt(i - 1)
CharAt(s, i) == IF i >= 1 /\ i <= Len(s) THEN SubSeq(s, i, i) ELSE ""

\* the least element of a non-empty set of integers
Least(set) == CHOOSE i \in set : \A j \in set : i <= j

\* position of the first one-character string c in s, 0 if absent
IndexOfChar(s, c) ==
    LET at == {i \in 1..Len(s) : SubSeq(s, i, i) = c}
    IN  IF at = {} THEN 0 ELSE Least(at)

UpperSet == {SubSeq(UpperChars, i, i) : i \in 1..Len(UpperChars)}
LowerSet == {SubSeq(LowerChars, i, i) : i \in 1..Len(LowerChars)}

LowerChar(c) ==
    IF c \in UpperSet THEN CharAt(LowerChars, IndexOfChar(UpperChars, c)) ELSE c

UpperChar(c) ==
    IF c \in LowerSet THEN CharAt(UpperChars, IndexOfChar(LowerChars, c)) ELSE c

RECURSIVE LowerFrom(_, _)
LowerFrom(s, i) ==
    IF i > Len(s) THEN "" ELSE LowerChar(SubSeq(s, i, i)) \o LowerFrom(s, i + 1)

\* s.toLowerCase()
ToLowerCase(s) == LowerFrom(s, 1)

RECURSIVE UpperFrom(_, _)
UpperFrom(s, i) ==
    IF i > Len(s) THEN "" ELSE UpperChar(SubSeq(s, i, i)) \o UpperFrom(s, i + 1)

\* s.toUpperCase()
ToUpperCase(s) == UpperFrom(s, 1)

IsSpace(c) == c = " " \/ c = "\t" \/ c = "\n"

RECURSIVE TrimStart(_)
TrimStart(s) ==
    IF s # "" /\ IsSpace(CharAt(s, 1)) THEN TrimStart(SubSeq(s, 2, Len(s))) ELSE s

RECURSIVE TrimEnd(_)
TrimEnd(s) ==
    IF s # "" /\ IsSpace(CharAt(s, Len(s))) THEN TrimEnd(SubSeq(s, 1, Len(s) - 1)) ELSE s

Trim(s) == TrimEnd(TrimStart(s))

\* s.includes(sub)
Includes(s, sub) ==
    \E i \in 0..(Len(s) - Len(sub)) : SubSeq(s, i + 1, i + Len(sub)) = sub

EndsWith(s, suffix) ==
    Len(s) >= Len(suffix) /\ SubSeq(s, Len(s) - Len(suffix) + 1, Len(s)) = suffix

\* s.split(' ')[0]: the text before the first space
FirstWord(s) ==
    LET i == IndexOfChar(s, " ") IN IF i = 0 THEN s ELSE SubSeq(s, 1, i - 1)

\* /\d/.test(s)
DigitSet == {SubSeq(Digits, i, i) : i \in 1..Len(Digits)}
HasDigit(s) == \E i \in 1..Len(s) : SubSeq(s, i, i) \in DigitSet

DigitChar(d) == CharAt(Digits, d + 1)
DigitVal(c) == IndexOfChar(Digits, c) - 1

RECURSIVE NatToString(_)
NatToString(k) ==
    IF k < 10 THEN DigitChar(k) ELSE NatToString(k \div 10) \o DigitChar(k % 10)

\* the decimals d1 d2 d3 without trailing zeros
Decimals(d1, d2, d3) ==
    IF d3 # 0 THEN DigitChar(d1) \o DigitChar(d2) \o DigitChar(d3)
    ELSE IF d2 # 0 THEN DigitChar(d1) \o DigitChar(d2)
    ELSE DigitChar(d1)

\* the decimals of String(x) for a fraction of m thousandths, 0 < m < 1000
FractionToString(m) == Decimals(m \div 100, (m \div 10) % 10, m % 10)

\* String(x) for x >= 0 of a thousandths
MagnitudeToString(a) ==
    NatToString(a \div 1000)
        \o (IF a % 1000 = 0 THEN "" ELSE "." \o FractionToString(a % 1000))

\* String(x) for a number of n thousandths
NumberToString(n) ==
    IF n < 0 THEN "-" \o MagnitudeToString(0 - n) ELSE MagnitudeToString(n)

\* String(value)
JsString(v) ==
    CASE v.t = "str" -> v.s
      [] v.t = "num" -> NumberToString(v.n)
      [] v.t = "inf" -> v.s
      [] OTHER -> "undefined"

----------------------------------------------------------------------------
(* Arrays and objects *)

Min(a, b) == IF a <= b THEN a ELSE b

\* array.findIndex(P) + 1: the first position satisfying P, 0 if none
FindIndex(seq, P(_)) ==
    LET hits == {i \in 1..Len(seq) : P(seq[i])}
    IN  IF hits = {} THEN 0 ELSE Least(hits)

\* the array of F(1), ..., F(n)
Build(n, F(_)) == LET f == [i \in 1..n |-> F(i)] IN SubSeq(f, 1, n)

\* array.splice(p - 1, 0, v): insert v before position p, or at the end of a
\* shorter array
Splice(seq, p, v) ==
    LET q == Min(p, Len(seq) + 1)
    IN  SubSeq(seq, 1, q - 1) \o <<v>> \o SubSeq(seq, q, Len(seq))

\* obj[k] = v on an object kept as a sequence of [k, v] in insertion order
RecSet(rec, k, v) ==
    IF \E i \in 1..Len(rec) : rec[i].k = k
    THEN Build(Len(rec), LAMBDA i : IF rec[i].k = k THEN [k |-> k, v |-> v] ELSE rec[i])
    ELSE Append(rec, [k |-> k, v |-> v])

\* obj[k]
RecGet(rec, k) ==
    IF \E i \in 1..Len(rec) : rec[i].k = k
    THEN (CHOOSE e \in {rec[i] : i \in 1..Len(rec)} : e.k = k).v
    ELSE Undef

\* the assignments ps (a sequence of [k, v]) applied to rec in order
RECURSIVE AssignAll(_, _)
AssignAll(rec, ps) ==
    IF ps = <<>> THEN rec ELSE AssignAll(RecSet(rec, Head(ps).k, Head(ps).v), Tail(ps))

----------------------------------------------------------------------------
(* parseNumericValue *)

IsDigit(c) == c \in DigitSet

\* the number of consecutive digits of s from position i on
DigitRun(s, i) ==
    CHOOSE k \in 0..(Len(s) - i + 1) :
        /\ \A j \in i..(i + k - 1) : IsDigit(CharAt(s, j))
        /\ (i + k > Len(s) \/ ~IsDigit(CharAt(s, i + k)))

RECURSIVE DigitsValue(_)
DigitsValue(s) ==
    IF s = "" THEN 0
    ELSE 10 * DigitsValue(SubSeq(s, 1, Len(s) - 1)) + DigitVal(CharAt(s, Len(s)))

\* s.replace(/["'\s]/g, '')
RECURSIVE StripQuotesAndSpaces(_)
StripQuotesAndSpaces(s) ==
    IF s = "" THEN ""
    ELSE LET c == CharAt(s, 1)
             rest == StripQuotesAndSpaces(SubSeq(s, 2, Len(s)))
         IN  IF c = "\"" \/ c = "'" \/ IsSpace(c) THEN rest ELSE c \o rest

\* s.replace(',', '.'): the first comma only
ReplaceFirstComma(s) ==
    LET i == IndexOfChar(s, ",")
    IN  IF i = 0 THEN s ELSE SubSeq(s, 1, i - 1) \o "." \o SubSeq(s, i + 1, Len(s))

\* parseFloat(s) for decimal text without exponent: the longest numeric
\* prefix, [nan, inf, n] with n in thousandths (decimals past the third
\* dropped), inf for the literal Infinity. p is the position after the sign,
\* k1 and k2 the lengths of the digit runs before and after the point
ParseFloatDigits(s, neg, p, k1, k2) ==
    IF k1 + k2 = 0 THEN [nan |-> TRUE, inf |-> FALSE, n |-> 0]
    ELSE [nan |-> FALSE,
          inf |-> FALSE,
          n |-> (IF neg THEN 0 - 1 ELSE 1)
                * (DigitsValue(SubSeq(s, p, p + k1 - 1)) * 1000
                   + DigitsValue(SubSeq(SubSeq(s, p + k1 + 1, p + k1 + k2) \o "000", 1, 3)))]

ParseFloatWhole(s, neg, p, k1) ==
    ParseFloatDigits(s, neg, p, k1,
                     IF CharAt(s, p + k1) = "." THEN DigitRun(s, p + k1 + 1) ELSE 0)

ParseFloatSigned(s, neg, p) ==
    IF Len(s) >= p + 7 /\ SubSeq(s, p, p + 7) = "Infinity"
    THEN [nan |-> FALSE, inf |-> TRUE, n |-> IF neg THEN 0 - 1 ELSE 1]
    ELSE ParseFloatWhole(s, neg, p, DigitRun(s, p))

ParseFloat(s) ==
    ParseFloatSigned(s, CharAt(s, 1) = "-",
                     IF CharAt(s, 1) = "-" \/ CharAt(s, 1) = "+" THEN 2 ELSE 1)

\* Math.round(x * 100) / 100 for x of n thousandths (halves round up)
Round2(n) == 10 * ((n + 5) \div 10)

\* isNaN(parsed) ? 0 : Math.round(parsed * 100) / 100
RoundParsed(parsed) ==
    IF parsed.nan THEN Num(0)
    ELSE IF parsed.inf THEN Infinite(parsed.n < 0)
    ELSE Num(Round2(parsed.n))

parseNumericValue(value) ==
    IF value.t = "num" THEN Num(Round2(value.n))
    ELSE IF value.t = "inf" THEN value
    ELSE IF value.t # "str" THEN Num(0)
    ELSE RoundParsed(ParseFloat(ReplaceFirstComma(StripQuotesAndSpaces(value.s))))

----------------------------------------------------------------------------
(* mapCondicionIvaToKey *)

\* the condicionIva table of ./index (label -> numeric key), in insertion order
condicionIva ==
    << [k |-> "Responsable Inscripto", v |-> Whole(1)],
       [k |-> "Monotributista", v |-> Whole(2)],
       [k |-> "Exento", v |-> Whole(3)],
       [k |-> "Consumidor Final", v |-> Whole(4)],
       [k |-> "No Responsable", v |-> Whole(5)],
       [k |-> "Sujeto No Categorizado", v |-> Whole(6)] >>

ExactMatch(lowerText, e) == ToLowerCase(e.k) = lowerText

\* the test of the partial match, on the lower-cased key and its first word
PartialMatchKey(lowerText, keyLower, firstWord) ==
    \/ Includes(lowerText, keyLower) \/ Includes(keyLower, lowerText)
    \/ Includes(lowerText, firstWord) \/ Includes(firstWord, lowerText)

PartialMatchLower(lowerText, keyLower) ==
    PartialMatchKey(lowerText, keyLower, FirstWord(keyLower))

PartialMatch(lowerText, e) == PartialMatchLower(lowerText, ToLowerCase(e.k))

\* the value returned for the positions of the exact and the partial match
MatchedKey(text, exact, partial) ==
    IF exact # 0 THEN condicionIva[exact].v
    ELSE IF partial # 0 THEN condicionIva[partial].v
    ELSE Str(text)

MapLowerText(text, lowerText) ==
    MatchedKey(text,
               FindIndex(condicionIva, LAMBDA e : ExactMatch(lowerText, e)),
               FindIndex(condicionIva, LAMBDA e : PartialMatch(lowerText, e)))

\* a faulty lookup that compares the text as written with the lower-cased
\* labels; C11 must tell it from the lookup of the source
MapTextAsWritten(text) ==
    IF text = "" \/ text = "SN" THEN Str(text) ELSE MapLowerText(text, text)

MapText(text) ==
    IF text = "" \/ text = "SN" THEN Str(text) ELSE MapLowerText(text, ToLowerCase(text))

\* a faulty mapper that looks the text up without trimming it; C20 must tell it
\* from the mapper of the source
mapCondicionIvaToKeyUntrimmed(condicionText) ==
    IF condicionText.t = "num" THEN condicionText
    ELSE MapText(JsString(condicionText))

mapCondicionIvaToKey(condicionText) ==
    IF condicionText.t = "num" THEN condicionText
    ELSE MapText(Trim(JsString(condicionText)))

----------------------------------------------------------------------------
(* validateWorksheets, validateAndAddMissingColumns *)

REQUIRED_COLUMNS ==
    << [name |-> "DISTRIBUIDOR",
        cols |-> <<"Codigo", "Nombre", "CUIT", "Telefono", "Email", "Condicion Iva",
                   "Persona Contacto">>],
       [name |-> "LISTA DE PRECIOS",
        cols |-> <<"Codigo", "Nombre">>],
       [name |-> "LISTA DE PRECIOS TRADICIONAL",
        cols |-> <<"Codigo de Lista", "Código Producto Bimbo", "Nombre del Producto",
                   "Marca", "Categoria del producto", "Precio Sin IVA", "% IVA",
                   "Precio con IVA">>],
       [name |-> "CLIENTES",
        cols |-> <<"Codigo", "Nombre", "Direccion", "Telefono", "Email", "CUIT",
                   "Condicion Iva", "Persona Contacto", "Codigo Lista precios",
                   "Visita Lunes", "Visita Martes", "Visita Miercoles", "Visita Jueves",
                   "Visita Viernes", "Visita Sábado", "Visita Domingo">>] >>

requiredSheets ==
    <<"DISTRIBUIDOR", "LISTA DE PRECIOS", "LISTA DE PRECIOS TRADICIONAL", "CLIENTES">>

\* Object.keys(workbookData).find(k => k.toLowerCase() === sheetName.toLowerCase()),
\* as a position in the workbook (0: no such key)
WorksheetKeyLower(workbook, wanted) ==
    FindIndex(workbook, LAMBDA e : ToLowerCase(e.name) = wanted)

WorksheetKey(workbook, sheetName) == WorksheetKeyLower(workbook, ToLowerCase(sheetName))

\* the error messages for the worksheets of missing, in order
MissingSheetErrors(missing) ==
    Build(Len(missing), LAMBDA i : "Falta la hoja: " \o missing[i])

validateWorksheets(workbook) ==
    MissingSheetErrors(SelectSeq(requiredSheets,
                                 LAMBDA sheet : WorksheetKey(workbook, sheet) = 0))

\* headers.map(h => h.toLowerCase())
LowerTexts(headers) == Build(Len(headers), LAMBDA j : ToLowerCase(headers[j]))

\* texts as string cells
S(texts) == Build(Len(texts), LAMBDA j : Str(texts[j]))

\* the column-presence test of one required column, on its lower-cased name
\* and the first word of that
ColumnFoundFirst(existingColumnsLower, requiredColLower, requiredFirst) ==
    \E i \in 1..Len(existingColumnsLower) :
        \/ Includes(existingColumnsLower[i], requiredFirst)
        \/ Includes(requiredColLower, FirstWord(existingColumnsLower[i]))

ColumnFoundLower(existingColumnsLower, requiredColLower) ==
    ColumnFoundFirst(existingColumnsLower, requiredColLower, FirstWord(requiredColLower))

ColumnFound(existingColumnsLower, requiredCol) ==
    ColumnFoundLower(existingColumnsLower, ToLowerCase(requiredCol))

\* a faulty policy that ignores the anchors and always appends; C7 must tell
\* it from the policy of the source
InsertPositionAtEnd(sheetName, missingCol, nombreIndex, visitaLunesIndex, end) == end

\* insertIndex + 1 given the positions of the two anchors (0: no anchor)
InsertPositionAt(sheetName, missingCol, nombreIndex, visitaLunesIndex, end) ==
    IF sheetName = "DISTRIBUIDOR" /\ missingCol = "CUIT"
    THEN (IF nombreIndex # 0 THEN nombreIndex ELSE end)
    ELSE IF sheetName = "CLIENTES" /\ missingCol = "Codigo Lista precios"
    THEN (IF visitaLunesIndex # 0 THEN visitaLunesIndex ELSE end)
    ELSE end

\* a faulty policy that puts every missing column first; C22 must tell it
\* from the policy of the source
InsertPositionFirst(sheetName, missingCol, lower) == 1

InsertPositionLower(sheetName, missingCol, lower) ==
    InsertPositionAt(sheetName, missingCol,
                     FindIndex(lower, LAMBDA h : Includes(h, "nombre")),
                     FindIndex(lower, LAMBDA h : Includes(h, "visita") /\ Includes(h, "lunes")),
                     Len(lower) + 1)

\* the position before which a missing column goes (insertIndex + 1)
InsertPosition(sheetName, missingCol, newHeaders) ==
    InsertPositionLower(sheetName, missingCol, LowerTexts(newHeaders))

\* a faulty round that splices the rows and leaves the header row as it was;
\* C6 must tell it from the round of the source
InsertedDataStaleHeader(data, p, newHeaders) ==
    Build(Len(data), LAMBDA i : IF i = 1 THEN data[1] ELSE Splice(data[i], p, Str("")))

\* newData after one round: the header row replaced by newHeaders, '' spliced
\* into every other row before position p
InsertedData(data, p, newHeaders) ==
    Build(Len(data), LAMBDA i :
        IF i = 1 THEN S(newHeaders) ELSE Splice(data[i], p, Str("")))

InsertColumnAt(st, p, newHeaders) ==
    [headers |-> newHeaders, data |-> InsertedData(st.data, p, newHeaders)]

InsertColumnBefore(st, p, missingCol) ==
    InsertColumnAt(st, p, Splice(st.headers, p, missingCol))

\* one round of the insertion loop, on st = [headers, data]
InsertColumn(st, sheetName, missingCol) ==
    InsertColumnBefore(st, InsertPosition(sheetName, missingCol, st.headers), missingCol)

RECURSIVE InsertColumns(_, _, _)
InsertColumns(st, sheetName, missingColumns) ==
    IF missingColumns = <<>> THEN st
    ELSE InsertColumns(InsertColumn(st, sheetName, Head(missingColumns)), sheetName,
                       Tail(missingColumns))

\* worksheetData[0].map(h => String(h).trim())
ExistingHeaders(worksheetData) ==
    Build(Len(worksheetData[1]), LAMBDA j : Trim(JsString(worksheetData[1][j])))

\* a faulty result that reports as added only the first missing column; C29
\* must tell it from the result of the source
ReconcileColumnsFirstAdded(sheetName, worksheetData, existingHeaders, existingColumns, missingColumns) ==
    [validation |-> [sheetName |-> sheetName,
                     missingColumns |-> missingColumns,
                     addedColumns |-> SelectSeq(missingColumns,
                                               LAMBDA c : c = Head(missingColumns)),
                     existingColumns |-> existingColumns],
     data |-> worksheetData]

\* the ColumnValidationResult of a worksheet and its grid afterwards
ReconcileColumns(sheetName, worksheetData, existingHeaders, existingColumns, missingColumns) ==
    [validation |-> [sheetName |-> sheetName,
                     missingColumns |-> missingColumns,
                     addedColumns |-> missingColumns,
                     existingColumns |-> existingColumns],
     data |-> IF Len(missingColumns) > 0
              THEN InsertColumns([headers |-> existingHeaders, data |-> worksheetData],
                                 sheetName, missingColumns).data
              ELSE worksheetData]

ReconcileLower(sheetName, requiredColumns, worksheetData, existingHeaders, existingColumnsLower) ==
    ReconcileColumns(sheetName, worksheetData, existingHeaders,
        SelectSeq(requiredColumns, LAMBDA c : ColumnFound(existingColumnsLower, c)),
        SelectSeq(requiredColumns, LAMBDA c : ~ColumnFound(existingColumnsLower, c)))

ReconcileHeaders(sheetName, requiredColumns, worksheetData, existingHeaders) ==
    ReconcileLower(sheetName, requiredColumns, worksheetData, existingHeaders,
                   LowerTexts(existingHeaders))

\* the body of the loop of validateAndAddMissingColumns for one worksheet with
\* at least one row
ReconcileSheet(sheetName, requiredColumns, worksheetData) ==
    ReconcileHeaders(sheetName, requiredColumns, worksheetData,
                     ExistingHeaders(worksheetData))

\* a faulty store that rewrites every worksheet of the copy; C23 must tell it
\* from the store of the source
SetGridEverywhere(data, key, grid) ==
    Build(Len(data), LAMBDA i : [name |-> data[i].name, grid |-> grid])

\* updatedData[worksheetKey] = newData
SetGrid(data, key, grid) ==
    Build(Len(data), LAMBDA i :
        IF i = key THEN [name |-> data[i].name, grid |-> grid] ELSE data[i])

\* the end of the loop body: the grid stored when columns were added, the
\* ColumnValidationResult pushed
Reconciled(st, key, rec) ==
    [updatedData |-> IF Len(rec.validation.missingColumns) > 0
                     THEN SetGrid(st.updatedData, key, rec.data)
                     ELSE st.updatedData,
     validationResults |-> Append(st.validationResults, rec.validation)]

\* one round of the loop over REQUIRED_COLUMNS, on st = [updatedData,
\* validationResults]
ValidateSheetAt(workbook, st, required, key) ==
    IF key = 0 \/ workbook[key].name = "" THEN st
    ELSE IF Len(workbook[key].grid) = 0 THEN st
    ELSE Reconciled(st, key,
                    ReconcileSheet(required.name, required.cols, workbook[key].grid))

RECURSIVE ValidateFrom(_, _, _)
ValidateFrom(workbook, st, j) ==
    IF j > Len(REQUIRED_COLUMNS) THEN st
    ELSE ValidateFrom(workbook,
                      ValidateSheetAt(workbook, st, REQUIRED_COLUMNS[j],
                                      WorksheetKey(workbook, REQUIRED_COLUMNS[j].name)),
                      j + 1)

validateAndAddMissingColumns(workbook) ==
    ValidateFrom(workbook, [updatedData |-> workbook, validationResults |-> <<>>], 1)

----------------------------------------------------------------------------
(* The worksheet transforms *)

\* data[0].map(h => String(h))
HeaderTexts(data) == Build(Len(data[1]), LAMBDA j : JsString(data[1][j]))

\* headers[index] used as a property name: "undefined" when findIndex gave -1
HeaderKey(headers, i) == IF i >= 1 /\ i <= Len(headers) THEN headers[i] ELSE "undefined"

\* key ? workbookData[key] : [] for the position key of the worksheet
WorksheetAt(workbook, key) ==
    IF key # 0 /\ workbook[key].name # "" THEN workbook[key].grid ELSE <<>>

findWorksheetData(workbook, sheetName) ==
    WorksheetAt(workbook, WorksheetKey(workbook, sheetName))

\* value = mapCondicionIvaToKey(value) on the Condicion Iva column
CondicionMapped(value, isCondicionIva) ==
    IF isCondicionIva THEN mapCondicionIvaToKey(value) ELSE value

\* the first pass over a CUIT cell: the text moved out of it, '' when nothing
\* is moved
TransferredFrom(cuitValue) ==
    IF Truthy(cuitValue) /\ cuitValue.t = "str" /\ ~HasDigit(cuitValue.s)
    THEN Trim(cuitValue.s)
    ELSE ""

TransferredFromCuit(row, cuitIndex) ==
    IF cuitIndex # 0 THEN TransferredFrom(At(row, cuitIndex)) ELSE ""

\* value.toUpperCase() on the Email column
EmailUpper(value, isEmail) ==
    IF isEmail /\ value.t = "str" THEN Str(ToUpperCase(value.s)) ELSE value

\* value = 'SN' on a CUIT column whose text was moved
CuitCleared(value, clear) == IF clear THEN SN ELSE value

\* the Nombre cell for its trimmed text and the text moved out of CUIT
NombreJoined(currentNombre, transferredFromCuit) ==
    IF currentNombre # "" /\ currentNombre # "SN"
    THEN Str(currentNombre \o " - " \o transferredFromCuit)
    ELSE Str(transferredFromCuit)

\* String(value || '').trim() joined with the text moved out of CUIT
NombreWithCuit(value, receives, transferredFromCuit) ==
    IF receives
    THEN NombreJoined(Trim(JsString(IF Truthy(value) THEN value ELSE Str(""))),
                      transferredFromCuit)
    ELSE value

DistribuidorIndices(lower) ==
    [email |-> FindIndex(lower, LAMBDA h : Includes(h, "email")),
     condicionIva |->
         FindIndex(lower, LAMBDA h : Includes(h, "condicion") /\ Includes(h, "iva")),
     cuit |-> FindIndex(lower, LAMBDA h : Includes(h, "cuit")),
     nombre |-> FindIndex(lower, LAMBDA h : Includes(h, "nombre"))]

\* the body of headers.forEach for one column
DistribuidorCell(row, index, ix, transferredFromCuit) ==
    NombreWithCuit(
        CuitCleared(
            CondicionMapped(
                EmailUpper(Coalesce(At(row, index), SN), index = ix.email),
                index = ix.condicionIva),
            index = ix.cuit /\ transferredFromCuit # ""),
        index = ix.nombre /\ transferredFromCuit # "",
        transferredFromCuit)

DistribuidorCells(headers, row, ix, transferredFromCuit) ==
    AssignAll(<<>>, Build(Len(headers), LAMBDA j :
        [k |-> headers[j], v |-> DistribuidorCell(row, j, ix, transferredFromCuit)]))

\* the record of one data row
DistribuidorRecord(headers, row, ix) ==
    DistribuidorCells(headers, row, ix, TransferredFromCuit(row, ix.cuit))

DistribuidorRows(data, headers, ix) ==
    Build(Len(data) - 1, LAMBDA r : DistribuidorRecord(headers, data[r + 1], ix))

DistribuidorData(data, headers) ==
    DistribuidorRows(data, headers, DistribuidorIndices(LowerTexts(headers)))

processDistribuidorWorksheet(data) ==
    IF Len(data) <= 1 THEN <<>> ELSE DistribuidorData(data, HeaderTexts(data))

ListaPreciosRecord(headers, row) ==
    AssignAll(<<>>, Build(Len(headers), LAMBDA j :
        [k |-> headers[j], v |-> Coalesce(At(row, j), SN)]))

ListaPreciosRows(data, headers) ==
    Build(Len(data) - 1, LAMBDA r : ListaPreciosRecord(headers, data[r + 1]))

processListaPreciosWorksheet(data) ==
    IF Len(data) <= 1 THEN <<>> ELSE ListaPreciosRows(data, HeaderTexts(data))

\* a non-finite number (a division by zero)
NonFinite == [t |-> "num", s |-> "NaN", n |-> 0]

\* Math.round(a / b) for b > 0 (halves round up)
RoundDiv(a, b) == (2 * a + b) \div (2 * b)

\* Math.round(a / b) as a number of hundredths, non-finite when b is 0
RoundQuotient(a, b) ==
    IF b = 0 THEN NonFinite
    ELSE IF b < 0 THEN Num(10 * RoundDiv(0 - a, 0 - b))
    ELSE Num(10 * RoundDiv(a, b))

\* x of n thousandths in hundredths; the prices and the rate are multiples of
\* 0.01, being results of parseNumericValue or the default rate
Hundredths(n) == n \div 10

\* Math.round(precioConIva / (1 + iva / 100) * 100) / 100
PriceWithoutIva(precioConIva, iva) ==
    RoundQuotient(Hundredths(precioConIva.n) * 10000, 10000 + Hundredths(iva.n))

\* Math.round(precioSinIva * (1 + iva / 100) * 100) / 100
PriceWithIva(precioSinIva, iva) ==
    RoundQuotient(Hundredths(precioSinIva.n) * (10000 + Hundredths(iva.n)), 10000)

DEFAULT_IVA == 21

\* the column read as the IVA rate
IvaIndex(lower) == FindIndex(lower, LAMBDA h : Includes(h, "% iva") \/ Includes(h, "iva"))

TradicionalIndices(lower) ==
    [precioSinIva |-> FindIndex(lower, LAMBDA h : Includes(h, "precio sin iva")),
     iva |-> IvaIndex(lower),
     precioConIva |-> FindIndex(lower, LAMBDA h : Includes(h, "precio con iva"))]

\* the body of headers.forEach for one column
TradicionalCell(value, isNumeric) ==
    IF isNumeric THEN parseNumericValue(value) ELSE value

TradicionalCells(headers, row, ix) ==
    AssignAll(<<>>, Build(Len(headers), LAMBDA j :
        [k |-> headers[j],
         v |-> TradicionalCell(Coalesce(At(row, j), SN),
                               j = ix.precioSinIva \/ j = ix.precioConIva \/ j = ix.iva)]))

\* result[headers[ivaIndex]] || 21
IvaOrDefault(value) == IF Truthy(value) THEN value ELSE Whole(DEFAULT_IVA)

\* a faulty rule that recomputes Precio Sin IVA whenever Precio con IVA is
\* there; C24 must tell it from the rule of the source
FillPrecioSinIvaAlways(result, key, precioSinIva, precioConIva, iva) ==
    IF Truthy(precioConIva)
    THEN RecSet(result, key, PriceWithoutIva(precioConIva, iva))
    ELSE result

\* if (precioConIva && (!precioSinIva || precioSinIva === 'SN'))
FillPrecioSinIva(result, key, precioSinIva, precioConIva, iva) ==
    IF Truthy(precioConIva) /\ (~Truthy(precioSinIva) \/ precioSinIva = SN)
    THEN RecSet(result, key, PriceWithoutIva(precioConIva, iva))
    ELSE result

\* if (precioSinIva && (!precioConIva || precioConIva === 'SN'))
FillPrecioConIva(result, key, precioSinIva, precioConIva, iva) ==
    IF Truthy(precioSinIva) /\ (~Truthy(precioConIva) \/ precioConIva = SN)
    THEN RecSet(result, key, PriceWithIva(precioSinIva, iva))
    ELSE result

\* Rule 3 on the three values read before either assignment
FillPrices(result, sinKey, conKey, precioSinIva, precioConIva, iva) ==
    FillPrecioConIva(FillPrecioSinIva(result, sinKey, precioSinIva, precioConIva, iva),
                     conKey, precioSinIva, precioConIva, iva)

ValidatePrices(result, sinKey, ivaKey, conKey) ==
    FillPrices(result, sinKey, conKey, RecGet(result, sinKey), RecGet(result, conKey),
               IvaOrDefault(RecGet(result, ivaKey)))

\* the record of one data row
TradicionalRecord(headers, row, ix) ==
    ValidatePrices(TradicionalCells(headers, row, ix),
                   HeaderKey(headers, ix.precioSinIva), HeaderKey(headers, ix.iva),
                   HeaderKey(headers, ix.precioConIva))

TradicionalRows(data, headers, ix) ==
    Build(Len(data) - 1, LAMBDA r : TradicionalRecord(headers, data[r + 1], ix))

TradicionalData(data, headers) ==
    TradicionalRows(data, headers, TradicionalIndices(LowerTexts(headers)))

processListaPreciosTradicionalWorksheet(data) ==
    IF Len(data) <= 1 THEN <<>> ELSE TradicionalData(data, HeaderTexts(data))

\* the column skipped as the original Codigo
CodigoIndex(lower) ==
    FindIndex(lower, LAMBDA h : Includes(h, "codigo") /\ ~Includes(h, "lista"))

\* the indices found on the headers as read, before any insertion
ClientesIndices(lower) ==
    [nombre |-> FindIndex(lower, LAMBDA h : Includes(h, "nombre")),
     direccion |-> FindIndex(lower, LAMBDA h : Includes(h, "direccion")),
     codigoListaPrecios |->
         FindIndex(lower, LAMBDA h : Includes(h, "codigo lista precios")),
     condicionIva |->
         FindIndex(lower, LAMBDA h : Includes(h, "condicion") /\ Includes(h, "iva")),
     visitaLunes |->
         FindIndex(lower, LAMBDA h : Includes(h, "visita") /\ Includes(h, "lunes"))]

\* originalValue ?? 'SN', '' kept on an empty cell of a visita column
VisitaKept(originalValue, isVisitaColumn) ==
    IF isVisitaColumn /\ (originalValue = Undef \/ originalValue = Str(""))
    THEN Str("")
    ELSE Coalesce(originalValue, SN)

\* `${nombre} - ${direccion}`.trim()
NombreDireccion(nombre, direccion) ==
    Str(Trim(JsString(Coalesce(nombre, Str(""))) \o " - "
             \o JsString(Coalesce(direccion, Str("")))))

\* listaPrecios.length > 0 ? listaPrecios[0].Codigo : 'SN'
PriceListCode(listaPrecios) ==
    IF Len(listaPrecios) > 0 THEN RecGet(listaPrecios[1], "Codigo") ELSE SN

\* the body of headers.forEach for one column that is not skipped
ClientesCell(row, colIndex, headerLower, ix, codigoListaPreciosIndex, priceListCode) ==
    CondicionMapped(
        IF colIndex = codigoListaPreciosIndex THEN priceListCode
        ELSE IF colIndex = ix.nombre /\ ix.direccion # 0
        THEN NombreDireccion(At(row, ix.nombre), At(row, ix.direccion))
        ELSE VisitaKept(At(row, colIndex), Includes(headerLower, "visita")),
        colIndex = ix.condicionIva)

\* the record of the data row of position index: result.Codigo = index + 1,
\* then every column but codigoIndex in header order
ClientesRecord(headers, lower, row, index, ix, codigoListaPreciosIndex, priceListCode, codigoIndex) ==
    AssignAll(<<[k |-> "Codigo", v |-> Whole(index)]>>,
              SelectSeq(Build(Len(headers), LAMBDA j :
                            [k |-> headers[j], j |-> j,
                             v |-> ClientesCell(row, j, lower[j], ix,
                                                codigoListaPreciosIndex, priceListCode)]),
                        LAMBDA e : e.j # codigoIndex))

ClientesRows(rows, headers, lower, ix, codigoListaPreciosIndex, priceListCode, codigoIndex) ==
    Build(Len(rows) - 1, LAMBDA r :
        ClientesRecord(headers, lower, rows[r + 1], r, ix, codigoListaPreciosIndex,
                       priceListCode, codigoIndex))

ClientesLower(rows, headers, lower, ix, codigoListaPreciosIndex, listaPrecios) ==
    ClientesRows(rows, headers, lower, ix, codigoListaPreciosIndex,
                 PriceListCode(listaPrecios), CodigoIndex(lower))

\* the rows mapped once the headers are settled
ClientesMapped(rows, headers, ix, codigoListaPreciosIndex, listaPrecios) ==
    ClientesLower(rows, headers, LowerTexts(headers), ix, codigoListaPreciosIndex,
                  listaPrecios)

Returned(value) == [threw |-> FALSE, error |-> "", value |-> value]
Threw(error) == [threw |-> TRUE, error |-> error, value |-> <<>>]

NO_VISITA_LUNES ==
    "No se pudo encontrar la columna \"Visita Lunes\" para insertar \"Codigo Lista precios\""

\* processedData after the insertion of the column before position p
ClientesInsertedRows(data, p) ==
    Build(Len(data), LAMBDA i : IF i = 1 THEN data[1] ELSE Splice(data[i], p, Str("")))

\* if (codigoListaPreciosIndex === -1) { ... }
ClientesInserted(data, headers, ix, listaPrecios) ==
    IF ix.visitaLunes = 0 THEN Threw(NO_VISITA_LUNES)
    ELSE Returned(ClientesMapped(ClientesInsertedRows(data, ix.visitaLunes),
                                 Splice(headers, ix.visitaLunes, "Codigo Lista precios"),
                                 ix, ix.visitaLunes, listaPrecios))

ClientesIndexed(data, headers, ix, listaPrecios) ==
    IF ix.codigoListaPrecios = 0 THEN ClientesInserted(data, headers, ix, listaPrecios)
    ELSE Returned(ClientesMapped(data, headers, ix, ix.codigoListaPrecios, listaPrecios))

ClientesData(data, headers, listaPrecios) ==
    ClientesIndexed(data, headers, ClientesIndices(LowerTexts(headers)), listaPrecios)

\* processClientesWorksheet: [threw, error, value]
processClientesWorksheet(data, listaPrecios) ==
    IF Len(data) <= 1 THEN Returned(<<>>)
    ELSE ClientesData(data, HeaderTexts(data), listaPrecios)

\* the object returned once processClientesWorksheet has returned or thrown
WorksheetsProcessed(workbook, listaPrecios, clientes) ==
    IF clientes.threw THEN Threw(clientes.error)
    ELSE Returned(
        [distribuidor |->
             processDistribuidorWorksheet(findWorksheetData(workbook, "DISTRIBUIDOR")),
         listaPrecios |-> listaPrecios,
         listaPreciosTradicional |->
             processListaPreciosTradicionalWorksheet(
                 findWorksheetData(workbook, "LISTA DE PRECIOS TRADICIONAL")),
         clientes |-> clientes.value])

WorksheetsWith(workbook, listaPrecios) ==
    WorksheetsProcessed(workbook, listaPrecios,
        processClientesWorksheet(findWorksheetData(workbook, "CLIENTES"), listaPrecios))

\* processWorksheets: [threw, error, value]
processWorksheets(workbook) ==
    WorksheetsWith(workbook,
        processListaPreciosWorksheet(findWorksheetData(workbook, "LISTA DE PRECIOS")))

----------------------------------------------------------------------------
(* Input data: the grids of the repository's own test files *)

\* test-data.ts, createTestExcelData: DISTRIBUIDOR without CUIT, CLIENTES
\* without Codigo Lista precios
TestDistribuidor ==
    << S(<<"Codigo", "Nombre", "Telefono", "Email", "Condicion Iva", "Persona Contacto">>),
       <<Whole(1), Str("Empresa ABC"), Str("1234567890"), Str("test@example.com"),
         Str("Responsable Inscripto"), Str("Juan Perez")>>,
       <<Whole(2), Str("Empresa XYZ"), Str("0987654321"), Str("info@xyz.com"),
         Str("Monotributista"), Str("Maria Lopez")>> >>

TestListaPrecios ==
    << S(<<"Codigo", "Nombre">>), S(<<"LP001", "Lista Principal">>) >>

TradicionalHeader ==
    S(<<"Codigo de Lista", "Código Producto Bimbo", "Nombre del Producto", "Marca",
        "Categoria del producto", "Precio Sin IVA", "% IVA", "Precio con IVA">>)

TestTradicional ==
    << TradicionalHeader,
       <<Str("LP001"), Str("PROD001"), Str("Producto 1"), Str("Marca A"),
         Str("Categoria 1"), Whole(100), Whole(21), Whole(121)>> >>

TestClientesHeader ==
    S(<<"Codigo", "Nombre", "Direccion", "Telefono", "Email", "CUIT", "Condicion Iva",
        "Persona Contacto", "Visita Lunes", "Visita Martes", "Visita Miercoles",
        "Visita Jueves", "Visita Viernes", "Visita Sábado", "Visita Domingo">>)

TestClientes ==
    << TestClientesHeader,
       <<Whole(1), Str("Cliente 1"), Str("Direccion 1"), Str("1111111111"),
         Str("cliente1@example.com"), Str("20-12345678-9"), Str("Responsable Inscripto"),
         Str("Contacto 1"), Str("Si"), Str("No"), Str("Si"), Str("No"), Str("Si"),
         Str("No"), Str("No")>> >>

TestWorkbook ==
    << [name |-> "DISTRIBUIDOR", grid |-> TestDistribuidor],
       [name |-> "LISTA DE PRECIOS", grid |-> TestListaPrecios],
       [name |-> "LISTA DE PRECIOS TRADICIONAL", grid |-> TestTradicional],
       [name |-> "CLIENTES", grid |-> TestClientes] >>

\* excel-processor.test.ts, mockExcelData: every column present, lower-case
\* worksheet names
DistribuidorHeader ==
    S(<<"Codigo", "Nombre", "CUIT", "Telefono", "Email", "Condicion Iva",
        "Persona Contacto">>)

MockDistribuidor ==
    << DistribuidorHeader,
       <<Whole(1059), Str("Rossi Cecilia Andrea"), Str(""), Str("341 6654381"),
         Str("ceciliabimbo2021@gmail.com"), Str("RESPONSABLE INSCRIPTO"),
         Str("Torres Cesar Octavio")>> >>

MockListaPrecios ==
    << S(<<"Codigo", "Nombre">>), S(<<"LPG", "Lista de precios general">>) >>

MockTradicional ==
    << TradicionalHeader,
       <<Str("LPG"), Whole(964647), Str("Pan Blanco Bim CM 1p 400g BOLSA BIM"),
         Str("BIMBO"), Str("Panificados Bimbo"), Str("2,322"), Whole(21),
         Str("2,809.51")>> >>

ClientesHeader ==
    S(<<"Codigo", "Nombre", "Direccion", "Telefono", "Email", "CUIT", "Condicion Iva",
        "Persona Contacto", "Codigo Lista precios", "Visita Lunes", "Visita Martes",
        "Visita Miercoles", "Visita Jueves", "Visita Viernes", "Visita Sábado",
        "Visita Domingo">>)

MockClientes ==
    << ClientesHeader,
       <<Whole(1), Str("Super Ebe"), Str("Caferata 776 Ricardone"), Str("SN"), Str("SN"),
         Str("SN"), Str("RESPONSABLE INSCRIPTO"), Str("SN"), Str("SN"), Str(""), Str("X"),
         Str(""), Str(""), Str("X"), Str(""), Str("")>> >>

MockWorkbook ==
    << [name |-> "distribuidor", grid |-> MockDistribuidor],
       [name |-> "lista de precios", grid |-> MockListaPrecios],
       [name |-> "lista de precios tradicional", grid |-> MockTradicional],
       [name |-> "clientes", grid |-> MockClientes] >>

\* workbook with the grid of worksheet sheetName (any case) replaced
WithSheet(workbook, sheetName, grid) ==
    Build(Len(workbook), LAMBDA i :
        IF i = WorksheetKey(workbook, sheetName)
        THEN [name |-> workbook[i].name, grid |-> grid] ELSE workbook[i])

\* workbook without the worksheets named in sheetNames (any case)
WithoutSheets(workbook, sheetNames) ==
    SelectSeq(workbook, LAMBDA e : \A n \in sheetNames : ToLowerCase(e.name) # ToLowerCase(n))

----------------------------------------------------------------------------
(* processExcelFiles, processExcelFile *)

None == [some |-> FALSE, val |-> <<>>]
Some(x) == [some |-> TRUE, val |-> x]

\* file.name.match(/\.(xlsx?|xls)$/i)
HasExcelExtension(name) ==
    EndsWith(ToLowerCase(name), ".xlsx") \/ EndsWith(ToLowerCase(name), ".xls")

\* `procesado_${originalFileName.replace(/\.(xlsx?|xls)$/i, '.xlsx')}`
OutputFileName(name) ==
    LET lower == ToLowerCase(name)
        stem == IF EndsWith(lower, ".xlsx") THEN SubSeq(name, 1, Len(name) - 5)
                ELSE IF EndsWith(lower, ".xls") THEN SubSeq(name, 1, Len(name) - 4)
                ELSE name
    IN  "procesado_" \o (IF HasExcelExtension(name) THEN stem \o ".xlsx" ELSE name)

InvalidFormatResult(name) ==
    [success |-> FALSE, fileName |-> name,
     message |-> "File must be .xlsx or .xls format",
     errors |-> Some(<<"Invalid file format">>),
     columnValidation |-> None, processedData |-> None]

MissingWorksheetsResult(name, validationErrors) ==
    [success |-> FALSE, fileName |-> name,
     message |-> "Missing required worksheets",
     errors |-> Some(validationErrors),
     columnValidation |-> None, processedData |-> None]

\* a faulty catch block that drops the message of the exception; C13 must tell
\* it from the catch block of the source
FailureResultUnknown(name, errorMessage) ==
    [success |-> FALSE, fileName |-> name,
     message |-> "Fallo el procesamiento: Error desconocido",
     errors |-> Some(<<"Error desconocido">>),
     columnValidation |-> None, processedData |-> None]

\* the catch block of processExcelFile
FailureResult(name, errorMessage) ==
    [success |-> FALSE, fileName |-> name,
     message |-> "Fallo el procesamiento: " \o errorMessage,
     errors |-> Some(<<errorMessage>>),
     columnValidation |-> None, processedData |-> None]

SuccessResult(name, validation, processed) ==
    [success |-> TRUE, fileName |-> name,
     message |-> "Archivo procesado con éxito",
     errors |-> None,
     columnValidation |-> Some(validation), processedData |-> Some(processed)]

\* a faulty loop that gives up on the batch at the first failed file; C4 must
\* tell it from the loop of the source
PushAborting(result) ==
    /\ results' = Append(results, result)
    /\ idx' = IF result.success THEN idx + 1 ELSE Len(files) + 1
    /\ pc' = "loop"

\* results.push(result) and the loop's step to the next file
Push(result) ==
    /\ results' = Append(results, result)
    /\ idx' = idx + 1
    /\ pc' = "loop"

Step(name) == calls' = [calls EXCEPT ![idx].steps = Append(@, name)]

\* the steps run for the file in progress, the last of which threw error
StepsThrow(names, error) ==
    calls' = [calls EXCEPT ![idx].steps = @ \o names, ![idx].thrown = Some(error)]

\* the steps run for the file in progress, all of which returned
StepsReturn(names) == calls' = [calls EXCEPT ![idx].steps = @ \o names]

\* processWorksheets and the transforms it calls, in the order of the calls
TransformCalls ==
    <<"processWorksheets", "processDistribuidorWorksheet", "processListaPreciosWorksheet",
      "processListaPreciosTradicionalWorksheet", "processClientesWorksheet">>

MaxFiles == 2

FileNames == {"datos.xlsx", "LISTA.XLS", "notas.csv"}

\* the batches: up to MaxFiles files of different names
Batches ==
    {b \in UNION {[1..n -> FileNames] : n \in 0..MaxFiles} :
        \A i, j \in 1..Len(b) : i # j => b[i] # b[j]}

UpperCodigoListaPrecios ==
    << S(<<"CODIGO", "Nombre">>), S(<<"LPG", "Lista de precios general">>) >>

HeaderOnlyListaPrecios == << S(<<"Codigo", "Nombre">>) >>

\* a CLIENTES sheet with a code column and a visit column, neither of them the
\* price list code or Visita Lunes
NoAnchorClientes ==
    << S(<<"Codigo", "Nombre", "Direccion", "Visita Martes">>),
       <<Whole(7), Str("Super Ebe"), Str("Caferata 776"), Str("X")>> >>

\* a CLIENTES sheet with neither a code column nor a Visita Lunes column
NoCodeNoAnchorClientes ==
    << S(<<"Nombre", "Direccion", "Visita Martes">>),
       <<Str("Super Ebe"), Str("Caferata 776"), Str("X")>> >>

\* what readExcelWorkbook may return
Workbooks ==
    { TestWorkbook,
      MockWorkbook,
      WithSheet(MockWorkbook, "LISTA DE PRECIOS", UpperCodigoListaPrecios),
      WithSheet(TestWorkbook, "LISTA DE PRECIOS", HeaderOnlyListaPrecios),
      WithSheet(MockWorkbook, "CLIENTES", NoAnchorClientes),
      WithSheet(MockWorkbook, "CLIENTES", NoCodeNoAnchorClientes),
      WithoutSheets(TestWorkbook, {"CLIENTES"}),
      WithoutSheets(MockWorkbook, {"DISTRIBUIDOR", "LISTA DE PRECIOS TRADICIONAL"}),
      <<>> }

READ_ERROR == "Error al leer el archivo Excel"
WRITE_ERROR == "writeBuffer failed"

Idle ==
    /\ workbookData = <<>> /\ updatedData = <<>> /\ validationResults = <<>>
    /\ processedData = None

UnitIdle == fn = "" /\ ret = None

\* useExcelProcessor as mounted: the initial values of its four useState
\* cells, no call of processFiles awaiting processExcelFiles
Mounted ==
    [isProcessing |-> FALSE, results |-> <<>>, resultsSummary |-> "", error |-> None,
     pending |-> {}, started |-> 0, overlapped |-> FALSE]

Init ==
    /\ files \in Batches
    /\ idx = 1
    /\ pc = "loop"
    /\ results = <<>>
    /\ calls = <<>>
    /\ downloads = <<>>
    /\ Idle
    /\ UnitIdle /\ arg = <<>>
    /\ hook = Mounted

\* a faulty entry of processExcelFile that leaves the extension to the codec;
\* C14 must tell it from the entry of the source
NextFileUnchecked ==
    /\ pc = "loop" /\ idx <= Len(files)
    /\ calls' = Append(calls, [steps |-> <<>>, workbook |-> None, thrown |-> None])
    /\ workbookData' = <<>> /\ updatedData' = <<>> /\ validationResults' = <<>>
    /\ processedData' = None
    /\ pc' = "read"
    /\ UNCHANGED <<idx, results, files, downloads, fn, arg, ret, hook>>

\* for (const file of files): the extension check of processExcelFile
NextFile ==
    /\ pc = "loop" /\ idx <= Len(files)
    /\ calls' = Append(calls, [steps |-> <<>>, workbook |-> None, thrown |-> None])
    /\ workbookData' = <<>> /\ updatedData' = <<>> /\ validationResults' = <<>>
    /\ processedData' = None
    /\ IF HasExcelExtension(files[idx])
       THEN pc' = "read" /\ UNCHANGED <<idx, results>>
       ELSE Push(InvalidFormatResult(files[idx]))
    /\ UNCHANGED <<files, downloads, fn, arg, ret, hook>>

\* await readExcelWorkbook(file) resolves
ReadWorkbook ==
    /\ pc = "read"
    /\ \E workbook \in Workbooks :
        /\ workbookData' = workbook
        /\ calls' = [calls EXCEPT ![idx].steps = Append(@, "readExcelWorkbook"),
                                 ![idx].workbook = Some(workbook)]
    /\ pc' = "validate"
    /\ UNCHANGED <<files, idx, updatedData, validationResults, processedData, results,
                   downloads, fn, arg, ret, hook>>

\* await readExcelWorkbook(file) rejects
ReadFails ==
    /\ pc = "read"
    /\ StepsThrow(<<"readExcelWorkbook">>, READ_ERROR)
    /\ Push(FailureResult(files[idx], READ_ERROR))
    /\ UNCHANGED <<files, workbookData, updatedData, validationResults, processedData,
                   downloads, fn, arg, ret, hook>>

\* a faulty check that goes on whatever validateWorksheets returned; C5 must
\* tell it from the check of the source
SheetsValidatedAnyway(validationErrors) ==
    pc' = "columns" /\ UNCHANGED <<idx, results>>

\* if (validationErrors.length > 0) return { success: false, ... }
SheetsValidated(validationErrors) ==
    IF Len(validationErrors) > 0
    THEN Push(MissingWorksheetsResult(files[idx], validationErrors))
    ELSE pc' = "columns" /\ UNCHANGED <<idx, results>>

ValidateSheets ==
    /\ pc = "validate"
    /\ Step("validateWorksheets")
    /\ SheetsValidated(validateWorksheets(workbookData))
    /\ UNCHANGED <<files, workbookData, updatedData, validationResults, processedData,
                   downloads, fn, arg, ret, hook>>

\* const { updatedData, validationResults } = validateAndAddMissingColumns(...)
ColumnsValidated(r) ==
    updatedData' = r.updatedData /\ validationResults' = r.validationResults

ValidateColumns ==
    /\ pc = "columns"
    /\ Step("validateAndAddMissingColumns")
    /\ ColumnsValidated(validateAndAddMissingColumns(workbookData))
    /\ pc' = "process"
    /\ UNCHANGED <<files, idx, workbookData, processedData, results, downloads,
                   fn, arg, ret, hook>>

\* a faulty step that goes on to the write although a transform threw; C18
\* must tell it from the step of the source
SheetsProcessedAnyway(r) ==
    /\ IF r.threw THEN StepsThrow(TransformCalls, r.error) ELSE StepsReturn(TransformCalls)
    /\ processedData' = Some(r.value)
    /\ pc' = "write"
    /\ UNCHANGED <<idx, results>>

\* processWorksheets resolved with r.value, or rejected into the catch block
SheetsProcessed(r) ==
    IF r.threw
    THEN /\ StepsThrow(TransformCalls, r.error)
         /\ Push(FailureResult(files[idx], r.error))
         /\ UNCHANGED processedData
    ELSE /\ StepsReturn(TransformCalls)
         /\ processedData' = Some(r.value)
         /\ pc' = "write"
         /\ UNCHANGED <<idx, results>>

ProcessSheets ==
    /\ pc = "process"
    /\ SheetsProcessed(processWorksheets(updatedData))
    /\ UNCHANGED <<files, workbookData, updatedData, validationResults, downloads,
                   fn, arg, ret, hook>>

\* await generateOutputFile(...) resolves: the workbook is written and downloaded
WriteOutput ==
    /\ pc = "write"
    /\ Step("generateOutputFile")
    /\ downloads' = Append(downloads, OutputFileName(files[idx]))
    /\ Push(SuccessResult(files[idx], validationResults, processedData.val))
    /\ UNCHANGED <<files, workbookData, updatedData, validationResults, processedData,
                   fn, arg, ret, hook>>

\* await generateOutputFile(...) rejects (createWorkbook or writeBuffer)
WriteFails ==
    /\ pc = "write"
    /\ StepsThrow(<<"generateOutputFile">>, WRITE_ERROR)
    /\ Push(FailureResult(files[idx], WRITE_ERROR))
    /\ UNCHANGED <<files, workbookData, updatedData, validationResults, processedData,
                   downloads, fn, arg, ret, hook>>

\* return results
Finish ==
    /\ pc = "loop" /\ idx > Len(files)
    /\ pc' = "done"
    /\ UNCHANGED <<files, idx, workbookData, updatedData, validationResults,
                   processedData, results, calls, downloads, fn, arg, ret, hook>>

Next ==
    \/ NextFile \/ ReadWorkbook \/ ReadFails \/ ValidateSheets \/ ValidateColumns
    \/ ProcessSheets \/ WriteOutput \/ WriteFails \/ Finish

Spec == Init /\ [][Next]_vars

\* the positions of the orchestrator
Positions == {"loop", "read", "validate", "columns", "process", "write", "done"}

\* the orchestrator moves on: every step of Next changes pc or idx, and one is
\* possible wherever pc is not "done"
Advance ==
    /\ pc # "done"
    /\ pc' \in Positions
    /\ idx' \in 1..(Len(files) + 1)

\* the codec's promises settle and the loop is never suspended for good, so
\* the orchestrator keeps moving on until it has returned
FairSpec == Spec /\ WF_<<pc, idx>>(Advance)

----------------------------------------------------------------------------
(* The worksheet functions applied on their own: arg is the argument, fn the *)
(* function applied to it (none yet in the initial state), ret its result.   *)

\* the orchestrator at rest while a function is applied on its own
UnitInit ==
    /\ files = <<>> /\ idx = 1 /\ pc = "unit"
    /\ results = <<>> /\ calls = <<>> /\ downloads = <<>>
    /\ Idle
    /\ UnitIdle
    /\ hook = Mounted

\* the call of function f returning r
Call(f, r) ==
    /\ fn = ""
    /\ fn' = f
    /\ ret' = Some(r)
    /\ UNCHANGED <<arg, hook, files, idx, pc, workbookData, updatedData, validationResults,
                   processedData, results, calls, downloads>>

(* processDistribuidorWorksheet *)

\* the CUIT cells tried: text without digits (plain, padded, the placeholder,
\* blanks only), text with digits, numbers, the empty string, no cell
CuitCells ==
    { Str("ABC"), Str(" ABC "), Str("SN"), Str("   "), Str("20-12345678-9"), Str("AB1"),
      Whole(201234), Str(""), Undef }

NombreCells == { Str("Juan"), Str(" Juan "), Str(""), Str("SN"), Str("  "), Whole(7), Undef }

\* header orders: the manifest's, and CUIT after Nombre at the end of the row
DistribuidorOrders == { <<"Codigo", "CUIT", "Nombre">>, <<"Codigo", "Nombre", "CUIT">> }

\* the row of a header order holding cuit and nombre; absent cells end the row
DistribuidorRow(order, cuit, nombre) ==
    LET cells == Build(3, LAMBDA j : IF order[j] = "CUIT" THEN cuit
                                     ELSE IF order[j] = "Nombre" THEN nombre
                                     ELSE Whole(1059))
    IN  IF cells[3] = Undef
        THEN (IF cells[2] = Undef THEN SubSeq(cells, 1, 1) ELSE SubSeq(cells, 1, 2))
        ELSE cells

\* an absent cell can only be followed by absent cells
RowExists(order, cuit, nombre) ==
    \A j \in 1..2 :
        LET cells == <<Whole(1059)>> \o
                     Build(2, LAMBDA k : IF order[k + 1] = "CUIT" THEN cuit ELSE nombre)
        IN  cells[j] = Undef => cells[j + 1] = Undef

DistribuidorGrids ==
    { <<S(order), DistribuidorRow(order, cuit, nombre)>> :
        <<order, cuit, nombre>> \in
            { t \in DistribuidorOrders \X CuitCells \X NombreCells :
                RowExists(t[1], t[2], t[3]) } }

InitDistribuidor == UnitInit /\ arg \in DistribuidorGrids

CallDistribuidor ==
    Call("processDistribuidorWorksheet", processDistribuidorWorksheet(arg))

SpecDistribuidor == InitDistribuidor /\ [][CallDistribuidor]_vars

(* processListaPreciosTradicionalWorksheet *)

TradicionalTexts ==
    <<"Codigo de Lista", "Código Producto Bimbo", "Nombre del Producto", "Marca",
      "Categoria del producto", "Precio Sin IVA", "% IVA", "Precio con IVA">>

\* the same columns with the rate ahead of the two prices
RateFirstTexts ==
    <<"Codigo de Lista", "Código Producto Bimbo", "Nombre del Producto", "Marca",
      "Categoria del producto", "% IVA", "Precio Sin IVA", "Precio con IVA">>

TradicionalOrders == { TradicionalTexts, RateFirstTexts }

SinCells == { Whole(100), Str("2,322"), Str(""), Str("SN"), Whole(0) }
IvaCells == { Whole(21), Num(10500), Str(""), Str("SN") }
ConCells == { Whole(121), Num(110500), Str("2,809.51"), Str(""), Str("SN"), Undef }

\* the row of a header order holding the three cells; an absent Precio con
\* IVA ends the row
TradicionalRow(order, sin, iva, con) ==
    LET cells == Build(8, LAMBDA j :
                     CASE order[j] = "Precio Sin IVA" -> sin
                       [] order[j] = "% IVA" -> iva
                       [] order[j] = "Precio con IVA" -> con
                       [] order[j] = "Codigo de Lista" -> Str("LPG")
                       [] order[j] = "Código Producto Bimbo" -> Whole(964647)
                       [] OTHER -> Str("BIMBO"))
    IN  IF con = Undef THEN SubSeq(cells, 1, 7) ELSE cells

TradicionalGrids ==
    { <<S(order), TradicionalRow(order, sin, iva, con)>> :
        <<order, sin, iva, con>> \in TradicionalOrders \X SinCells \X IvaCells \X ConCells }

InitTradicional == UnitInit /\ arg \in TradicionalGrids

CallTradicional ==
    Call("processListaPreciosTradicionalWorksheet",
         processListaPreciosTradicionalWorksheet(arg))

SpecTradicional == InitTradicional /\ [][CallTradicional]_vars

(* processClientesWorksheet *)

MaxRows == 2

\* header rows: the usual one; Codigo not first; two headers containing
\* 'codigo'; without Codigo Lista precios; without Codigo; without an anchor;
\* without Codigo Lista precios and with Visita Lunes ahead of Nombre
ClientesOrders ==
    { <<"Codigo", "Nombre", "Direccion", "Condicion Iva", "Codigo Lista precios",
        "Visita Lunes">>,
      <<"Nombre", "Codigo", "Direccion", "Condicion Iva", "Codigo Lista precios",
        "Visita Lunes">>,
      <<"Codigo Postal", "Codigo", "Nombre", "Direccion", "Codigo Lista precios",
        "Visita Lunes">>,
      <<"Codigo", "Nombre", "Direccion", "Condicion Iva", "Visita Lunes",
        "Visita Martes">>,
      <<"Nombre", "Direccion", "Condicion Iva", "Codigo Lista precios", "Visita Lunes",
        "Telefono">>,
      <<"Codigo", "Nombre", "Direccion">>,
      <<"Codigo", "Visita Lunes", "Nombre", "Direccion", "Condicion Iva", "Telefono">> }

\* data rows: a full one, one with empty cells and the placeholder, a short
\* one, one whose second cell is empty
ClientesRowPool ==
    { <<Whole(40), Str("Super Ebe"), Str("Caferata 776"), Str("Monotributista"),
        Str("OLD"), Str("X")>>,
      <<Str("A-7"), Str("Kiosco"), Str(""), Str("SN"), Str(""), Str("")>>,
      <<Whole(3), Str("Almacen")>>,
      <<Whole(5), Str(""), Str("Despensa"), Str("Mitre 10"), Str("Exento"), Str("")>> }

ClientesRowLists == UNION {[1..n -> ClientesRowPool] : n \in 0..MaxRows}

ClientesGrids ==
    { <<S(order)>> \o rows : <<order, rows>> \in ClientesOrders \X ClientesRowLists }

ClientesArgs ==
    [data : ClientesGrids,
     listaPrecios : { processListaPreciosWorksheet(MockListaPrecios), <<>> }]

InitClientes == UnitInit /\ arg \in ClientesArgs

CallClientes ==
    Call("processClientesWorksheet", processClientesWorksheet(arg.data, arg.listaPrecios))

SpecClientes == InitClientes /\ [][CallClientes]_vars

(* validateAndAddMissingColumns, applied once and then again to its own *)
(* updatedData: ret holds the results of the runs so far                      *)

\* DISTRIBUIDOR grids: without CUIT; complete; [Codigo, Nombre, Telefono] with
\* a short row; without Nombre; no row at all; a header row of padded text and
\* a number
DistribuidorSheets ==
    { TestDistribuidor,
      MockDistribuidor,
      << S(<<"Codigo", "Nombre", "Telefono">>),
         <<Whole(1), Str("Empresa ABC"), Str("1234567890")>>,
         <<Whole(2)>> >>,
      << S(<<"Codigo", "Telefono">>), <<Whole(1), Str("1234567890")>> >>,
      <<>>,
      << <<Str(" Codigo "), Whole(2024), Str("nombre")>> >> }

\* CLIENTES grids: without Codigo Lista precios; complete; without anchor;
\* complete in lower case; without any code column, with the anchor
ClientesSheets ==
    { TestClientes,
      MockClientes,
      NoAnchorClientes,
      << S(<<"codigo", "nombre", "direccion", "telefono", "email", "cuit",
             "condicion iva", "persona contacto", "codigo lista precios",
             "visita lunes", "visita martes", "visita miercoles", "visita jueves",
             "visita viernes", "visita sábado", "visita domingo">>) >>,
      << S(<<"Nombre", "Direccion", "Visita Lunes", "Visita Martes">>),
         <<Str("Super Ebe"), Str("Caferata 776"), Str("X"), Str("")>> >> }

ListaPreciosSheets == { MockListaPrecios, UpperCodigoListaPrecios }

\* LISTA DE PRECIOS TRADICIONAL grids: the manifest's headers; without the
\* product code and the rate
TradicionalSheets ==
    { MockTradicional,
      << S(<<"Codigo de Lista", "Nombre del Producto", "Marca",
             "Categoria del producto", "Precio Sin IVA", "Precio con IVA">>),
         <<Str("LPG"), Str("Pan Blanco"), Str("BIMBO"), Str("Panificados"),
           Whole(100), Str("")>> >> }

RequiredWorkbook(distribuidor, listaPrecios, tradicional, clientes) ==
    << [name |-> "DISTRIBUIDOR", grid |-> distribuidor],
       [name |-> "LISTA DE PRECIOS", grid |-> listaPrecios],
       [name |-> "LISTA DE PRECIOS TRADICIONAL", grid |-> tradicional],
       [name |-> "CLIENTES", grid |-> clientes] >>

\* the workbooks reconciled: every combination of the grids above, and
\* workbooks with lower-case names, a worksheet more, worksheets fewer, none
ReconcilerWorkbooks ==
    { RequiredWorkbook(d, l, t, c) :
        <<d, l, t, c>> \in DistribuidorSheets \X ListaPreciosSheets \X TradicionalSheets
                              \X ClientesSheets }
    \cup { MockWorkbook,
           Append(TestWorkbook, [name |-> "NOTAS", grid |-> << S(<<"Nota">>) >>]),
           WithoutSheets(TestWorkbook, {"CLIENTES"}),
           <<>> }

InitReconciler == UnitInit /\ arg \in ReconcilerWorkbooks

Reconcile ==
    /\ fn = ""
    /\ fn' = "validateAndAddMissingColumns"
    /\ ret' = Some(<<validateAndAddMissingColumns(arg)>>)
    /\ UNCHANGED <<arg, hook, files, idx, pc, workbookData, updatedData, validationResults,
                   processedData, results, calls, downloads>>

ReconcileAgain ==
    /\ fn = "validateAndAddMissingColumns"
    /\ fn' = "validateAndAddMissingColumns twice"
    /\ ret' = Some(Append(ret.val, validateAndAddMissingColumns(ret.val[1].updatedData)))
    /\ UNCHANGED <<arg, hook, files, idx, pc, workbookData, updatedData, validationResults,
                   processedData, results, calls, downloads>>

NextReconciler == Reconcile \/ ReconcileAgain

SpecReconciler == InitReconciler /\ [][NextReconciler]_vars

(* mapCondicionIvaToKey *)

\* the condition texts tried, as written: labels of the table, abbreviations,
\* texts holding a label, texts matching nothing, the placeholder, no text
CondicionTexts ==
    { "Responsable Inscripto", "Resp. Inscripto", "Monotributista", "Monotributo",
      "Exento", "Consumidor Final", "Final", "No Responsable", "IVA No Responsable",
      "Sujeto No Categorizado", "Otro", "abc", "SN", "" }

\* each text as written, in lower case and in upper case
CondicionCases == UNION { {s, ToLowerCase(s), ToUpperCase(s)} : s \in CondicionTexts }

\* the cells mapped: the texts bare and between blanks, and numeric cells
CondicionCells ==
    { Str(s) : s \in CondicionCases } \cup { Str(" " \o s \o "  ") : s \in CondicionCases }
    \cup { Whole(1), Whole(7), Num(1500) }

InitCondicion == UnitInit /\ arg \in CondicionCells

CallCondicion == Call("mapCondicionIvaToKey", mapCondicionIvaToKey(arg))

SpecCondicion == InitCondicion /\ [][CallCondicion]_vars

(* parseNumericValue *)

\* the texts parsed: no text, the placeholder, words, whole numbers, decimal
\* commas and points, signs, text after a number, a currency sign, the
\* literal Infinity
ParseTexts ==
    { "", "SN", "abc", "-", "$100", "100", "0", "2,322", "2,809.51", "1,2,3",
      "12.345", "12.344", "-5", "+7.5", ".5", "1.", "12abc", "-0.015",
      "Infinity", "-Infinity" }

\* the cells parsed: each text bare, between blanks, between double and
\* single quotes, numeric cells, no cell
ParseCells ==
    { Str(s) : s \in ParseTexts }
    \cup { Str(" " \o s \o "\t") : s \in ParseTexts }
    \cup { Str("\"" \o s \o "\"") : s \in ParseTexts }
    \cup { Str("'" \o s \o "'") : s \in ParseTexts }
    \cup { Whole(0), Whole(100), Num(12345), Num(12344), Num(2322000), Num(0 - 5),
           Num(0 - 15), Num(0 - 12346), Undef }

InitParse == UnitInit /\ arg \in ParseCells

CallParse == Call("parseNumericValue", parseNumericValue(arg))

SpecParse == InitParse /\ [][CallParse]_vars

(* useExcelProcessor *)

\* array.join(sep)
RECURSIVE Join(_, _)
Join(texts, sep) ==
    IF Len(texts) = 0 THEN ""
    ELSE IF Len(texts) = 1 THEN texts[1]
    ELSE texts[1] \o sep \o Join(Tail(texts), sep)

\* the lines of formatProcessingResults for one ColumnValidationResult; the
\* pictographs of the source are written as their names between colons
ValidationSummary(validation) ==
    "      " \o validation.sheetName \o ":\n"
    \o "         :white_check_mark: Existentes: "
    \o NatToString(Len(validation.existingColumns)) \o "\n"
    \o (IF Len(validation.addedColumns) > 0
        THEN "         :heavy_plus_sign: Agregadas: "
             \o Join(validation.addedColumns, ", ") \o "\n"
        ELSE "")
    \o (IF Len(validation.missingColumns) > 0
        THEN "         :x: Faltantes: " \o Join(validation.missingColumns, ", ") \o "\n"
        ELSE "")

ValidationsSummary(validations) ==
    Join(Build(Len(validations), LAMBDA i : ValidationSummary(validations[i])), "")

\* the line of formatProcessingResults for result.processedData
ProcessedSummary(processed) ==
    "   :bar_chart: Procesados: " \o NatToString(Len(processed.distribuidor))
    \o " distribuidores, " \o NatToString(Len(processed.listaPrecios))
    \o " listas de precios, " \o NatToString(Len(processed.listaPreciosTradicional))
    \o " precios tradicionales, " \o NatToString(Len(processed.clientes))
    \o " clientes\n"

\* the lines of formatProcessingResults for one ProcessingResult
ResultSummary(result) ==
    ":file_folder: " \o result.fileName \o ":\n"
    \o "   " \o (IF result.success THEN ":white_check_mark:" ELSE ":x:") \o " "
    \o result.message \o "\n"
    \o (IF result.errors.some /\ Len(result.errors.val) > 0
        THEN "   Errores: " \o Join(result.errors.val, ", ") \o "\n"
        ELSE "")
    \o (IF result.columnValidation.some /\ Len(result.columnValidation.val) > 0
        THEN "   :clipboard: Validación de columnas:\n"
             \o ValidationsSummary(result.columnValidation.val)
        ELSE "")
    \o (IF result.processedData.some THEN ProcessedSummary(result.processedData.val)
        ELSE "")
    \o "\n"

formatProcessingResults(list) ==
    "Se procesaron "
    \o NatToString(Len(SelectSeq(list, LAMBDA r : r.success))) \o "/"
    \o NatToString(Len(list)) \o " archivos con éxito.\n\n"
    \o Join(Build(Len(list), LAMBDA i : ResultSummary(list[i])), "")

MaxCalls == 3

\* the file lists handed to processFiles: none, one workbook, a text file
\* and a workbook
HookBatches == { <<>>, <<"datos.xlsx">>, <<"notas.csv", "LISTA.XLS">> }

\* the ProcessingResult of a workbook read and written, on the grids of
\* createTestExcelData
ReconciledResult(name, reconciled) ==
    SuccessResult(name, reconciled.validationResults,
                  processWorksheets(reconciled.updatedData).value)

\* what processExcelFile may answer for a file of this name
FileResults(name) ==
    IF ~HasExcelExtension(name) THEN { InvalidFormatResult(name) }
    ELSE { ReconciledResult(name, validateAndAddMissingColumns(TestWorkbook)),
           MissingWorksheetsResult(name,
               validateWorksheets(WithoutSheets(TestWorkbook, {"CLIENTES"}))),
           FailureResult(name, READ_ERROR) }

\* what processExcelFiles may answer for a file list: one result per file, in
\* order
BatchResults(list) ==
    { r \in UNION { [1..Len(list) -> FileResults(list[i])] : i \in 1..Len(list) } :
        \A i \in 1..Len(list) : r[i] \in FileResults(list[i]) }

\* what the awaited processExcelFiles may throw: an Error with a message,
\* something that is not an Error
Thrown == { Some("fallo"), None }

\* err instanceof Error ? err.message : 'Error no conocido'
ErrorMessage(err) == IF err.some THEN err.val ELSE "Error no conocido"

\* a state transition of the hook alone
HookStep(next) ==
    /\ pc = "unit"
    /\ hook' = next
    /\ UNCHANGED <<files, idx, pc, workbookData, updatedData, validationResults,
                   processedData, results, calls, downloads, fn, arg, ret>>

\* processFiles(files) with no file: the early return
ProcessFilesNone ==
    \E list \in HookBatches :
        /\ Len(list) = 0
        /\ HookStep([hook EXCEPT !.error = Some("No files selected")])

\* processFiles(files) up to its await
ProcessFilesStart ==
    \E list \in HookBatches :
        /\ Len(list) > 0
        /\ hook.started < MaxCalls
        /\ HookStep([hook EXCEPT !.isProcessing = TRUE,
                                 !.error = None,
                                 !.results = <<>>,
                                 !.resultsSummary = "",
                                 !.pending = @ \cup {[id |-> hook.started + 1,
                                                      files |-> list]},
                                 !.started = @ + 1,
                                 !.overlapped = @ \/ hook.pending # {}])

\* the continuation of a call after processExcelFiles answered: the try
\* block and the finally block
Resolved(call, processingResults) ==
    [hook EXCEPT !.results = processingResults,
                 !.resultsSummary = formatProcessingResults(processingResults),
                 !.isProcessing = FALSE,
                 !.pending = @ \ {call}]

ProcessFilesResolved ==
    \E call \in hook.pending :
        \E processingResults \in arg[call.files] :
            HookStep(Resolved(call, processingResults))

\* the continuation of a call after processExcelFiles threw: the catch block
\* and the finally block
Rejected(call, err) ==
    [hook EXCEPT !.error = Some(ErrorMessage(err)),
                 !.isProcessing = FALSE,
                 !.pending = @ \ {call}]

ProcessFilesRejected ==
    \E call \in hook.pending : \E err \in Thrown : HookStep(Rejected(call, err))

clearResults == HookStep([hook EXCEPT !.results = <<>>, !.resultsSummary = ""])

clearError == HookStep([hook EXCEPT !.error = None])

NextHook ==
    \/ ProcessFilesNone
    \/ ProcessFilesStart
    \/ ProcessFilesResolved
    \/ ProcessFilesRejected
    \/ clearResults
    \/ clearError

\* arg holds what processExcelFiles may answer for each file list
InitHook == UnitInit /\ arg = [list \in HookBatches |-> BatchResults(list)]

SpecHook == InitHook /\ [][NextHook]_vars

----------------------------------------------------------------------------
(* Properties *)

\* the position of the first header cell of a grid with exactly this text
HeaderNamed(grid, name) == FindIndex(grid[1], LAMBDA h : h = Str(name))

\* the cell of row r of a grid under the header of this text
CellUnder(grid, r, name) == At(grid[r], HeaderNamed(grid, name))

\* C1: for a CLIENTES grid with N data rows (whatever the header order, the
\* original Codigo values and the number of headers containing 'codigo'),
\* processClientesWorksheet returns N records whose Codigo values are
\* 1, 2, ..., N in row order.
C1_CodigoAutoIncrement ==
    (fn = "processClientesWorksheet" /\ ~ret.val.threw) =>
        /\ Len(ret.val.value) = Len(arg.data) - 1
        /\ \A i \in 1..Len(ret.val.value) : RecGet(ret.val.value[i], "Codigo") = Whole(i)

\* the price cells a rule of processListaPreciosTradicionalWorksheet reads
\* as present (a non-zero number once parsed) or absent
PricePresent(cell) == Truthy(parseNumericValue(Coalesce(cell, SN)))

\* the rate of a row: its '% IVA' cell, 21 when that is absent, empty or the
\* placeholder
RowRate(grid) ==
    IvaOrDefault(parseNumericValue(Coalesce(CellUnder(grid, 2, "% IVA"), SN)))

\* C2: with the manifest header order, a row with 'Precio Sin IVA' present
\* and 'Precio con IVA' absent or empty gets 'Precio con IVA' =
\* round2(Precio Sin IVA * (1 + iva / 100)) for iva the row's '% IVA' value;
\* Precio Sin IVA 100 and % IVA 21 give 121.00.
C2_PrecioConIvaDerived ==
    (/\ fn = "processListaPreciosTradicionalWorksheet"
     /\ arg[1] = S(TradicionalTexts)
     /\ PricePresent(CellUnder(arg, 2, "Precio Sin IVA"))
     /\ ~PricePresent(CellUnder(arg, 2, "Precio con IVA"))) =>
        /\ RecGet(ret.val[1], "Precio con IVA") =
               PriceWithIva(parseNumericValue(CellUnder(arg, 2, "Precio Sin IVA")),
                            RowRate(arg))
        /\ (/\ CellUnder(arg, 2, "Precio Sin IVA") = Whole(100)
            /\ CellUnder(arg, 2, "% IVA") = Whole(21)) =>
               RecGet(ret.val[1], "Precio con IVA") = Num(121000)

\* C3: with the manifest header order, a row with 'Precio con IVA' present
\* and 'Precio Sin IVA' absent or empty gets 'Precio Sin IVA' =
\* round2(Precio con IVA / (1 + iva / 100)) for iva the row's own '% IVA'
\* value (21 only when that cell is absent or the placeholder), and keeps
\* its 'Precio con IVA'; Precio con IVA 121 and % IVA 21 give 100.00.
C3_PrecioSinIvaDerived ==
    (/\ fn = "processListaPreciosTradicionalWorksheet"
     /\ arg[1] = S(TradicionalTexts)
     /\ PricePresent(CellUnder(arg, 2, "Precio con IVA"))
     /\ ~PricePresent(CellUnder(arg, 2, "Precio Sin IVA"))) =>
        /\ RecGet(ret.val[1], "Precio Sin IVA") =
               PriceWithoutIva(parseNumericValue(CellUnder(arg, 2, "Precio con IVA")),
                               RowRate(arg))
        /\ RecGet(ret.val[1], "Precio con IVA") =
               parseNumericValue(CellUnder(arg, 2, "Precio con IVA"))
        /\ (/\ CellUnder(arg, 2, "Precio con IVA") = Whole(121)
            /\ CellUnder(arg, 2, "% IVA") = Whole(21)) =>
               RecGet(ret.val[1], "Precio Sin IVA") = Num(100000)

\* a non-empty string without a digit
TextWithoutDigit(cell) == cell.t = "str" /\ cell.s # "" /\ ~HasDigit(cell.s)

\* a cell holding a digit: a number, or text with a digit in it
HoldsDigit(cell) == cell.t = "num" \/ (cell.t = "str" /\ HasDigit(cell.s))

\* the text of a Nombre cell, '' when the cell is empty, absent or 'SN'
NombreText(cell) ==
    IF Truthy(cell) /\ Trim(JsString(cell)) # "SN" THEN Trim(JsString(cell)) ELSE ""

\* C10: in processDistribuidorWorksheet a row whose CUIT cell is a non-empty
\* string without a digit gets CUIT 'SN' and Nombre '<nombre> - <cuit text
\* trimmed>' when its Nombre is non-empty and not 'SN', the trimmed CUIT text
\* alone otherwise; a CUIT cell with a digit, or a number, leaves CUIT and
\* Nombre as they were.
C10_CuitTransfer ==
    fn = "processDistribuidorWorksheet" =>
        /\ TextWithoutDigit(CellUnder(arg, 2, "CUIT")) =>
               /\ RecGet(ret.val[1], "CUIT") = SN
               /\ RecGet(ret.val[1], "Nombre") =
                      IF NombreText(CellUnder(arg, 2, "Nombre")) # ""
                      THEN Str(NombreText(CellUnder(arg, 2, "Nombre")) \o " - "
                               \o Trim(CellUnder(arg, 2, "CUIT").s))
                      ELSE Str(Trim(CellUnder(arg, 2, "CUIT").s))
        /\ HoldsDigit(CellUnder(arg, 2, "CUIT")) =>
               /\ RecGet(ret.val[1], "CUIT") = CellUnder(arg, 2, "CUIT")
               /\ RecGet(ret.val[1], "Nombre") = Coalesce(CellUnder(arg, 2, "Nombre"), SN)

\* the same for the CUIT cells that are not blank
C10_ExceptBlankCuit ==
    (fn = "processDistribuidorWorksheet" /\ Trim(JsString(CellUnder(arg, 2, "CUIT"))) # "")
        => C10_CuitTransfer

\* C4: for every list of input files processExcelFiles terminates with one
\* result per file, the i-th carrying the name of the i-th file, whichever
\* files fail; a failed file does not stop the files after it.
C4_OneResultPerFile ==
    <>[](/\ pc = "done"
         /\ Len(results) = Len(files)
         /\ \A i \in 1..Len(files) : results[i].fileName = files[i])

\* a batch ended in which the first file failed and the second succeeded
C4_FailureThenSuccess ==
    /\ pc = "done" /\ Len(files) = 2 /\ Len(results) = 2
    /\ ~results[1].success /\ results[2].success

\* the workbook has a worksheet of this name, letter case aside
HasSheet(workbook, name) ==
    \E i \in 1..Len(workbook) : ToLowerCase(workbook[i].name) = ToLowerCase(name)

\* the required names the workbook lacks, in the required order
MissingSheets(workbook) == SelectSeq(requiredSheets, LAMBDA name : ~HasSheet(workbook, name))

\* the i-th file was read and its workbook lacks a required worksheet
LacksSheets(i) ==
    calls[i].workbook.some /\ MissingSheets(calls[i].workbook.val) # <<>>

\* C5: a file whose workbook lacks required worksheets (names compared
\* without regard to case) gets success = false, errors = 'Falta la hoja:
\* <NAME>' for each missing name in the order DISTRIBUIDOR, LISTA DE PRECIOS,
\* LISTA DE PRECIOS TRADICIONAL, CLIENTES, no columnValidation and no
\* processedData, and neither the reconciliation nor a transform nor the
\* write runs for it; only CLIENTES missing gives ['Falta la hoja: CLIENTES'].
C5_MissingWorksheets ==
    \A i \in 1..Len(results) :
        LacksSheets(i) =>
            /\ ~results[i].success
            /\ results[i].errors =
                   Some([n \in 1..Len(MissingSheets(calls[i].workbook.val)) |->
                            "Falta la hoja: " \o MissingSheets(calls[i].workbook.val)[n]])
            /\ results[i].columnValidation = None
            /\ results[i].processedData = None
            /\ calls[i].steps = <<"readExcelWorkbook", "validateWorksheets">>
            /\ MissingSheets(calls[i].workbook.val) = <<"CLIENTES">> =>
                   results[i].errors = Some(<<"Falta la hoja: CLIENTES">>)

\* a file without CLIENTES alone was answered, and so was one lacking two
\* worksheets
C5_ClientesMissing ==
    \E i, j \in 1..Len(results) :
        /\ LacksSheets(i) /\ MissingSheets(calls[i].workbook.val) = <<"CLIENTES">>
        /\ LacksSheets(j) /\ Len(MissingSheets(calls[j].workbook.val)) = 2

\* the code cell of the first data row of a LISTA DE PRECIOS grid: the cell
\* under the header that reads 'codigo' in any letter case, 'SN' when the grid
\* has no data row
FirstPriceListCode(grid) ==
    IF Len(grid) <= 1 THEN SN
    ELSE Coalesce(At(grid[2], FindIndex(grid[1], LAMBDA h : ToLowerCase(JsString(h)) = "codigo")),
                  SN)

\* C9: in every successful result every CLIENTES record's 'Codigo Lista
\* precios' is the code cell of the first data row of the LISTA DE PRECIOS
\* worksheet, whatever the letter case of its code header, or 'SN' when that
\* worksheet has no data rows.
C9_PriceListCode ==
    \A i \in 1..Len(results) :
        results[i].success =>
            \A r \in 1..Len(results[i].processedData.val.clientes) :
                RecGet(results[i].processedData.val.clientes[r], "Codigo Lista precios")
                    = FirstPriceListCode(findWorksheetData(calls[i].workbook.val,
                                                           "LISTA DE PRECIOS"))

\* C6: validateAndAddMissingColumns applied to its own updatedData returns
\* the same grids, and every ColumnValidationResult of that second run has no
\* missing and no added column.
C6_ReconcileIdempotent ==
    fn = "validateAndAddMissingColumns twice" =>
        /\ ret.val[2].updatedData = ret.val[1].updatedData
        /\ \A n \in 1..Len(ret.val[2].validationResults) :
               /\ ret.val[2].validationResults[n].missingColumns = <<>>
               /\ ret.val[2].validationResults[n].addedColumns = <<>>

\* a second run after a first one that added columns to two worksheets
C6_SecondRunAfterInsertions ==
    /\ fn = "validateAndAddMissingColumns twice"
    /\ \E m, n \in 1..Len(ret.val[1].validationResults) :
           /\ m # n
           /\ ret.val[1].validationResults[m].addedColumns # <<>>
           /\ ret.val[1].validationResults[n].addedColumns # <<>>
    /\ Len(ret.val[2].validationResults) = 4

\* the texts of the header row of a worksheet of a workbook
SheetHeader(workbook, sheetName) ==
    [j \in 1..Len(findWorksheetData(workbook, sheetName)[1]) |->
        JsString(findWorksheetData(workbook, sheetName)[1][j])]

\* validateAndAddMissingColumns ran on a workbook whose DISTRIBUIDOR header
\* is [Codigo, Nombre, Telefono]
ShortDistribuidorReconciled ==
    /\ fn = "validateAndAddMissingColumns"
    /\ HasSheet(arg, "DISTRIBUIDOR")
    /\ Len(findWorksheetData(arg, "DISTRIBUIDOR")) > 0
    /\ SheetHeader(arg, "DISTRIBUIDOR") = <<"Codigo", "Nombre", "Telefono">>

\* C7 as stated: a DISTRIBUIDOR header [Codigo, Nombre, Telefono] is
\* [Codigo, CUIT, Nombre, Telefono] after validateAndAddMissingColumns.
C7_HeaderAsStated ==
    ShortDistribuidorReconciled =>
        SheetHeader(ret.val[1].updatedData, "DISTRIBUIDOR")
            = <<"Codigo", "CUIT", "Nombre", "Telefono">>

\* C7: a DISTRIBUIDOR header [Codigo, Nombre, Telefono] is [Codigo, CUIT,
\* Nombre, Telefono, Email, Condicion Iva, Persona Contacto] after
\* validateAndAddMissingColumns: CUIT goes before Nombre, the other missing
\* required columns go to the end in manifest order.
C7_CuitBeforeNombre ==
    ShortDistribuidorReconciled =>
        SheetHeader(ret.val[1].updatedData, "DISTRIBUIDOR")
            = <<"Codigo", "CUIT", "Nombre", "Telefono", "Email", "Condicion Iva",
                "Persona Contacto">>

\* such a worksheet was reconciled, and CUIT was reported as added
C7_ShortHeaderReconciled ==
    /\ ShortDistribuidorReconciled
    /\ \E n \in 1..Len(ret.val[1].validationResults) :
           /\ ret.val[1].validationResults[n].sheetName = "DISTRIBUIDOR"
           /\ \E k \in 1..Len(ret.val[1].validationResults[n].addedColumns) :
                  ret.val[1].validationResults[n].addedColumns[k] = "CUIT"

\* the required columns of CLIENTES
ClientesColumns == REQUIRED_COLUMNS[4].cols

\* validateAndAddMissingColumns ran on a workbook whose CLIENTES header holds
\* every required column but 'Codigo Lista precios'
ClientesLacksOnlyPriceList ==
    /\ fn = "validateAndAddMissingColumns"
    /\ HasSheet(arg, "CLIENTES")
    /\ Len(findWorksheetData(arg, "CLIENTES")) > 0
    /\ \A k \in 1..Len(ClientesColumns) :
           (HeaderNamed(findWorksheetData(arg, "CLIENTES"), ClientesColumns[k]) # 0)
               <=> (ClientesColumns[k] # "Codigo Lista precios")

\* C8: for a CLIENTES header with every required column but 'Codigo Lista
\* precios' the ColumnValidationResult of CLIENTES has missingColumns =
\* addedColumns = ['Codigo Lista precios'] and existingColumns the other 15
\* required columns.
C8_PriceListColumnReported ==
    ClientesLacksOnlyPriceList =>
        \E n \in 1..Len(ret.val[1].validationResults) :
            /\ ret.val[1].validationResults[n].sheetName = "CLIENTES"
            /\ ret.val[1].validationResults[n].missingColumns = <<"Codigo Lista precios">>
            /\ ret.val[1].validationResults[n].addedColumns = <<"Codigo Lista precios">>
            /\ ret.val[1].validationResults[n].existingColumns =
                   SelectSeq(ClientesColumns, LAMBDA c : c # "Codigo Lista precios")

----------------------------------------------------------------------------
(* mapCondicionIvaToKey: properties *)

\* the cells of CondicionCells that differ from cell at most in letter case
SameButCase(cell) ==
    { other \in CondicionCells :
        other.t = "str" /\ cell.t = "str" /\ ToLowerCase(other.s) = ToLowerCase(cell.s) }

Mapped == fn = "mapCondicionIvaToKey"

\* C11 as stated: two texts that differ only in letter case are mapped to the
\* same result, whatever the texts.
C11_SameResultAnyCase ==
    Mapped => \A other \in SameButCase(arg) : mapCondicionIvaToKey(other) = ret.val

\* C11: two texts that differ only in letter case are mapped to the same code
\* whenever one of them is mapped to a code of the table; a text that matches
\* no label comes back trimmed and as written, in its own letter case.
C11_SameCodeAnyCase ==
    Mapped =>
        \A other \in SameButCase(arg) :
            /\ (ret.val.t = "num" \/ mapCondicionIvaToKey(other).t = "num")
                    => mapCondicionIvaToKey(other) = ret.val
            /\ ret.val.t = "str" => ret.val = Str(Trim(arg.s))

\* the lower-case label was mapped to a code, the code of its upper-case twin
C11_LowerCaseLabelMapped ==
    /\ Mapped /\ arg = Str("responsable inscripto")
    /\ ret.val.t = "num"
    /\ Str("RESPONSABLE INSCRIPTO") \in SameButCase(arg)

----------------------------------------------------------------------------
(* processExcelFile: properties *)

\* the lower-cased header texts of the CLIENTES grid of a workbook
ClientesHeadersLower(workbook) ==
    LowerTexts(HeaderTexts(findWorksheetData(workbook, "CLIENTES")))

\* the i-th file was read, its workbook has the four worksheets and a CLIENTES
\* grid with data rows, of which no header holds 'codigo lista precios' and no
\* header holds both 'visita' and 'lunes'
LacksPriceListAndAnchor(i) ==
    /\ calls[i].workbook.some
    /\ validateWorksheets(calls[i].workbook.val) = <<>>
    /\ Len(findWorksheetData(calls[i].workbook.val, "CLIENTES")) > 1
    /\ \A j \in 1..Len(ClientesHeadersLower(calls[i].workbook.val)) :
          /\ ~Includes(ClientesHeadersLower(calls[i].workbook.val)[j], "codigo lista precios")
          /\ ~(/\ Includes(ClientesHeadersLower(calls[i].workbook.val)[j], "visita")
               /\ Includes(ClientesHeadersLower(calls[i].workbook.val)[j], "lunes"))

\* C12: a file whose CLIENTES worksheet has neither a 'Codigo Lista precios'
\* column nor a header holding 'visita' and 'lunes' gets success = false with
\* an error; it is never reported as successful with the column appended.
C12_MissingAnchorFails ==
    \A i \in 1..Len(results) :
        LacksPriceListAndAnchor(i) => (~results[i].success /\ results[i].errors.some)

\* C13: processExcelFile does not throw for a file with a supported extension:
\* an exception raised while the workbook is read, the worksheets are
\* transformed or the output is written ends the file with a returned result
\* of success = false, the file's name, errors = [the exception's message] and
\* no processedData, and the batch goes on.
C13_ExceptionsBecomeResults ==
    \A i \in 1..Len(calls) :
        calls[i].thrown.some =>
            /\ HasExcelExtension(files[i])
            /\ i <= Len(results)
            /\ ~results[i].success
            /\ results[i].fileName = files[i]
            /\ results[i].errors = Some(<<calls[i].thrown.val>>)
            /\ results[i].message = "Fallo el procesamiento: " \o calls[i].thrown.val
            /\ results[i].processedData = None
            /\ results[i].columnValidation = None

\* a batch in which a transform threw for one file and the write for another
C13_TransformAndWriteThrew ==
    \E i, j \in 1..Len(results) :
        /\ calls[i].thrown = Some(NO_VISITA_LUNES)
        /\ calls[j].thrown = Some(WRITE_ERROR)
        /\ pc = "done"

\* C14: a file whose name does not end in .xls or .xlsx (in any letter case)
\* gets success = false with errors = ['Invalid file format'], and
\* readExcelWorkbook is never called for it (no step at all is run).
C14_BadExtensionRejected ==
    \A i \in 1..Len(calls) :
        ~HasExcelExtension(files[i]) =>
            /\ calls[i].steps = <<>>
            /\ calls[i].workbook = None
            /\ i <= Len(results)
            /\ ~results[i].success
            /\ results[i].fileName = files[i]
            /\ results[i].errors = Some(<<"Invalid file format">>)
            /\ results[i].processedData = None

\* a finished batch with a .csv file after a file that was read
C14_CsvAfterWorkbook ==
    /\ pc = "done" /\ Len(files) = 2
    /\ files[2] = "notas.csv" /\ calls[1].workbook.some
    /\ results[2].errors = Some(<<"Invalid file format">>)

----------------------------------------------------------------------------
(* validateAndAddMissingColumns: further properties *)

\* validateAndAddMissingColumns ran on a workbook that has the four worksheets
RequiredSheetsReconciled == fn # "" /\ validateWorksheets(arg) = <<>>

\* C15: for a workbook that passes the worksheet-presence check,
\* validateAndAddMissingColumns returns exactly four ColumnValidationResults,
\* one per required worksheet in manifest order, also for a worksheet whose
\* grid has no rows.
C15_FourValidationResults ==
    RequiredSheetsReconciled =>
        /\ Len(ret.val[1].validationResults) = Len(REQUIRED_COLUMNS)
        /\ \A n \in 1..Len(ret.val[1].validationResults) :
               ret.val[1].validationResults[n].sheetName = REQUIRED_COLUMNS[n].name

\* some header of the grid holds the whole column name, letter case aside
HeaderHolds(grid, column) ==
    \E j \in 1..Len(grid[1]) :
        Includes(ToLowerCase(JsString(grid[1][j])), ToLowerCase(column))

\* C16: after validateAndAddMissingColumns every required worksheet with a
\* non-empty grid has, for every column of its manifest, a header that holds
\* the whole column name (letter case aside).
C16_RequiredColumnsResolvable ==
    fn # "" =>
        \A n \in 1..Len(REQUIRED_COLUMNS) :
            Len(findWorksheetData(ret.val[1].updatedData, REQUIRED_COLUMNS[n].name)) > 0 =>
                \A k \in 1..Len(REQUIRED_COLUMNS[n].cols) :
                    HeaderHolds(findWorksheetData(ret.val[1].updatedData,
                                                  REQUIRED_COLUMNS[n].name),
                                REQUIRED_COLUMNS[n].cols[k])

----------------------------------------------------------------------------
(* processExcelFile: what a successful result reports *)

\* the processed records of a successful result for a required worksheet
RecordsOf(processed, sheetName) ==
    CASE sheetName = "DISTRIBUIDOR" -> processed.distribuidor
      [] sheetName = "LISTA DE PRECIOS" -> processed.listaPrecios
      [] sheetName = "LISTA DE PRECIOS TRADICIONAL" -> processed.listaPreciosTradicional
      [] OTHER -> processed.clientes

\* column is the text of a header of the grid, blanks around it aside
IsHeaderOf(grid, column) ==
    /\ Len(grid) > 0
    /\ \E j \in 1..Len(grid[1]) : Trim(JsString(grid[1][j])) = Trim(column)

\* column is among the addedColumns reported for the worksheet
ReportedAdded(validation, sheetName, column) ==
    \E n \in 1..Len(validation) :
        /\ validation[n].sheetName = sheetName
        /\ \E k \in 1..Len(validation[n].addedColumns) :
               validation[n].addedColumns[k] = column

\* C17: in every successful result, a column that appears in the processed
\* records of a worksheet and was not a header of that worksheet in the
\* workbook read is listed in the addedColumns of that worksheet.
C17_AddedColumnsReported ==
    \A i \in 1..Len(results) :
        results[i].success =>
            \A s \in 1..Len(requiredSheets) :
                \A r \in 1..Len(RecordsOf(results[i].processedData.val, requiredSheets[s])) :
                    \A c \in 1..Len(RecordsOf(results[i].processedData.val,
                                              requiredSheets[s])[r]) :
                        \/ IsHeaderOf(findWorksheetData(calls[i].workbook.val,
                                                        requiredSheets[s]),
                                      RecordsOf(results[i].processedData.val,
                                                requiredSheets[s])[r][c].k)
                        \/ ReportedAdded(results[i].columnValidation.val, requiredSheets[s],
                                         RecordsOf(results[i].processedData.val,
                                                   requiredSheets[s])[r][c].k)

----------------------------------------------------------------------------
(* processExcelFile: the order of the steps *)

\* the steps of a file that is processed to the end
FullOrder ==
    <<"readExcelWorkbook", "validateWorksheets", "validateAndAddMissingColumns">>
    \o TransformCalls \o <<"generateOutputFile">>

\* the files for which the output was written and handed to downloadFile
Written == { i \in 1..Len(results) : results[i].success }

\* C18: the steps of a file are run in the order read, worksheet check,
\* reconciliation, the transforms of Distribuidor, ListaPrecios,
\* ListaPreciosTradicional and Clientes, write; the write happens at most once
\* per file and only after every transform returned, and success = true is
\* returned only after the write.
C18_StepsInOrder ==
    /\ \A i \in 1..Len(calls) :
          /\ Len(calls[i].steps) <= Len(FullOrder)
          /\ calls[i].steps = SubSeq(FullOrder, 1, Len(calls[i].steps))
          /\ (calls[i].thrown.some /\ calls[i].thrown.val # WRITE_ERROR)
                 => Len(calls[i].steps) < Len(FullOrder)
    /\ pc = "write" => (processedData.some /\ ~calls[idx].thrown.some)
    /\ \A i \in Written : calls[i].steps = FullOrder /\ ~calls[i].thrown.some
    /\ Len(downloads) = Cardinality(Written)

\* a finished batch: one file written, one stopped by its last transform
C18_WrittenAndStopped ==
    /\ pc = "done"
    /\ \E i, j \in 1..Len(results) :
          /\ results[i].success /\ calls[i].steps = FullOrder
          /\ calls[j].thrown = Some(NO_VISITA_LUNES)
          /\ calls[j].steps = SubSeq(FullOrder, 1, Len(FullOrder) - 1)

----------------------------------------------------------------------------
(* mapCondicionIvaToKey: the match tiers *)

\* the first entry of the table, in insertion order, whose lower-cased label
\* or its first word holds, or is held by, the lower-cased text
SubstringTier(lowerText) ==
    FindIndex(condicionIva, LAMBDA e :
        Includes(lowerText, ToLowerCase(e.k)) \/ Includes(ToLowerCase(e.k), lowerText))

FirstWordTier(lowerText) ==
    FindIndex(condicionIva, LAMBDA e :
        \/ Includes(lowerText, FirstWord(ToLowerCase(e.k)))
        \/ Includes(FirstWord(ToLowerCase(e.k)), lowerText))

\* the result of the three tiers applied one after the other over the table
TieredResult(text, exact, substring, firstWord) ==
    IF exact # 0 THEN condicionIva[exact].v
    ELSE IF substring # 0 THEN condicionIva[substring].v
    ELSE IF firstWord # 0 THEN condicionIva[firstWord].v
    ELSE Str(text)

TieredLower(text, lowerText) ==
    TieredResult(text, FindIndex(condicionIva, LAMBDA e : ToLowerCase(e.k) = lowerText),
                 SubstringTier(lowerText), FirstWordTier(lowerText))

\* a text was mapped that is neither empty nor the placeholder once trimmed
TextLookedUp ==
    Mapped /\ arg.t = "str" /\ Trim(arg.s) # "" /\ Trim(arg.s) # "SN"

\* C19: the tiers are applied over the whole table in strict order: an exact
\* match on any entry wins over any substring match, a substring match on any
\* entry wins over a first-word match on any other entry, and within a tier
\* the first entry in insertion order is returned.
C19_TiersInStrictOrder ==
    TextLookedUp => ret.val = TieredLower(Trim(arg.s), ToLowerCase(Trim(arg.s)))

\* no entry of the table matches the lower-cased text in any tier
NoTierMatches(lowerText) ==
    /\ FindIndex(condicionIva, LAMBDA e : ToLowerCase(e.k) = lowerText) = 0
    /\ SubstringTier(lowerText) = 0
    /\ FirstWordTier(lowerText) = 0

\* C20: mapCondicionIvaToKey always returns a value: a number is returned
\* unchanged, a text that is empty or 'SN' once trimmed is returned trimmed
\* without a lookup, and a text that no entry matches in any tier is returned
\* trimmed and otherwise unchanged.
C20_PassThrough ==
    Mapped =>
        /\ ret.val.t \in {"num", "str"}
        /\ arg.t = "num" => ret.val = arg
        /\ (arg.t = "str" /\ Trim(arg.s) \in {"", "SN"}) => ret.val = Str(Trim(arg.s))
        /\ (arg.t = "str" /\ NoTierMatches(ToLowerCase(Trim(arg.s))))
               => ret.val = Str(Trim(arg.s))

\* a text between blanks that matches nothing was returned trimmed
C20_UnknownTextTrimmed ==
    /\ Mapped /\ arg = Str(" Otro  ")
    /\ NoTierMatches("otro")
    /\ ret.val = Str("Otro")

----------------------------------------------------------------------------
(* validateAndAddMissingColumns: the rows after an insertion *)

\* header j of the grid is the first one with its trimmed text
FirstOfItsName(grid, j) ==
    \A i \in 1..(j - 1) : Trim(JsString(grid[1][i])) # Trim(JsString(grid[1][j]))

\* every data row of after has '' under each added column
AddedCellsEmpty(after, added) ==
    \A r \in 2..Len(after) :
        \A k \in 1..Len(added) : CellUnder(after, r, added[k]) = Str("")

\* every cell of a data row of before that lies under a header is under the
\* same header in after
OriginalCellsKept(before, after) ==
    \A r \in 2..Len(before) :
        \A j \in 1..Min(Len(before[r]), Len(before[1])) :
            FirstOfItsName(before, j) =>
                CellUnder(after, r, Trim(JsString(before[1][j]))) = before[r][j]

\* C21: after validateAndAddMissingColumns inserted columns into a worksheet,
\* every data row, also one shorter than the header, has '' at the header
\* index of each inserted column, and every original cell is still under the
\* header it was under.
C21_RowsAligned ==
    fn # "" =>
        \A n \in 1..Len(ret.val[1].validationResults) :
            Len(ret.val[1].validationResults[n].addedColumns) > 0 =>
                /\ AddedCellsEmpty(findWorksheetData(ret.val[1].updatedData,
                                       ret.val[1].validationResults[n].sheetName),
                                   ret.val[1].validationResults[n].addedColumns)
                /\ OriginalCellsKept(findWorksheetData(arg,
                                         ret.val[1].validationResults[n].sheetName),
                                     findWorksheetData(ret.val[1].updatedData,
                                         ret.val[1].validationResults[n].sheetName))

\* the second half of C21 alone: original cells stay under their headers
C21_OriginalCellsKept ==
    fn # "" =>
        \A n \in 1..Len(ret.val[1].validationResults) :
            Len(ret.val[1].validationResults[n].addedColumns) > 0 =>
                OriginalCellsKept(findWorksheetData(arg,
                                      ret.val[1].validationResults[n].sheetName),
                                  findWorksheetData(ret.val[1].updatedData,
                                      ret.val[1].validationResults[n].sheetName))

\* the first half of C21 for the worksheets whose data rows are all at least
\* as long as the header
C21_ExceptShortRows ==
    fn # "" =>
        \A n \in 1..Len(ret.val[1].validationResults) :
            (/\ Len(ret.val[1].validationResults[n].addedColumns) > 0
             /\ \A r \in 2..Len(findWorksheetData(arg,
                                    ret.val[1].validationResults[n].sheetName)) :
                    Len(findWorksheetData(arg,
                            ret.val[1].validationResults[n].sheetName)[r])
                      >= Len(findWorksheetData(arg,
                                 ret.val[1].validationResults[n].sheetName)[1])) =>
                AddedCellsEmpty(findWorksheetData(ret.val[1].updatedData,
                                    ret.val[1].validationResults[n].sheetName),
                                ret.val[1].validationResults[n].addedColumns)

----------------------------------------------------------------------------
(* validateAndAddMissingColumns: where the missing columns go *)

\* the position in the header texts of the anchor of a column, 0 when the
\* column has no anchor or the header has none
AnchorIndex(sheetName, column, headers) ==
    IF sheetName = "DISTRIBUIDOR" /\ column = "CUIT"
    THEN FindIndex(headers, LAMBDA h : Includes(ToLowerCase(h), "nombre"))
    ELSE IF sheetName = "CLIENTES" /\ column = "Codigo Lista precios"
    THEN FindIndex(headers, LAMBDA h : /\ Includes(ToLowerCase(h), "visita")
                                       /\ Includes(ToLowerCase(h), "lunes"))
    ELSE 0

\* an added column whose anchor is in the header
AnchoredIn(sheetName, headers, added, column) ==
    /\ \E k \in 1..Len(added) : added[k] = column
    /\ AnchorIndex(sheetName, column, headers) # 0

\* an added column whose anchor is not in the header
AppendedIn(sheetName, headers, added, column) ==
    /\ \E k \in 1..Len(added) : added[k] = column
    /\ AnchorIndex(sheetName, column, headers) = 0

\* after is before with the added columns placed by the positional policy:
\* an added column with an anchor stands immediately before its anchor, and
\* the rest of after is before followed by the other added columns in
\* manifest order
PlacedByPolicy(sheetName, columns, before, after, added) ==
    /\ \A k \in 1..Len(added) :
           AnchoredIn(sheetName, after, added, added[k]) =>
               /\ AnchorIndex(sheetName, added[k], after) > 1
               /\ after[AnchorIndex(sheetName, added[k], after) - 1] = added[k]
    /\ SelectSeq(after, LAMBDA h : ~AnchoredIn(sheetName, after, added, h))
         = before \o SelectSeq(columns, LAMBDA c : AppendedIn(sheetName, after, added, c))

----------------------------------------------------------------------------
(* validateAndAddMissingColumns: what it leaves alone *)

\* the first run reported columns added to the i-th worksheet of its input
InsertedInto(i) ==
    \E n \in 1..Len(ret.val[1].validationResults) :
        /\ WorksheetKey(arg, ret.val[1].validationResults[n].sheetName) = i
        /\ Len(ret.val[1].validationResults[n].addedColumns) > 0

\* updatedData has the worksheets of the input under the same names, and
\* every worksheet without an insertion has the grid of the input
OnlyInsertedReplaced ==
    /\ Len(ret.val[1].updatedData) = Len(arg)
    /\ \A i \in 1..Len(arg) :
           /\ ret.val[1].updatedData[i].name = arg[i].name
           /\ ~InsertedInto(i) => ret.val[1].updatedData[i].grid = arg[i].grid
           /\ InsertedInto(i) => ret.val[1].updatedData[i].grid # arg[i].grid

\* C23: validateAndAddMissingColumns does not modify its input workbook, and
\* in updatedData every worksheet without a missing column, and every
\* worksheet that is not required, is the unchanged grid; only worksheets
\* with at least one insertion are replaced.
C23_InputAndFrame ==
    [][/\ arg' = arg
       /\ fn # "" => OnlyInsertedReplaced]_vars

\* a run on a workbook with a worksheet that is not required, a worksheet
\* with insertions and a required worksheet without
C23_MixedWorkbook ==
    /\ fn = "validateAndAddMissingColumns"
    /\ \E i \in 1..Len(arg) : ~HasSheet(RequiredWorkbook(<<>>, <<>>, <<>>, <<>>), arg[i].name)
    /\ \E i \in 1..Len(arg) : InsertedInto(i)
    /\ \E i \in 1..Len(arg) :
           /\ HasSheet(RequiredWorkbook(<<>>, <<>>, <<>>, <<>>), arg[i].name)
           /\ ~InsertedInto(i)

----------------------------------------------------------------------------
(* validateAndAddMissingColumns: the ColumnValidationResult *)

\* the members of a sequence of texts
Members(texts) == { texts[k] : k \in 1..Len(texts) }

\* existingColumns and missingColumns split the manifest columns in two, each
\* in manifest order, and addedColumns repeats missingColumns
SplitsManifest(columns, validation) ==
    /\ Members(validation.existingColumns) \cap Members(validation.missingColumns) = {}
    /\ Members(validation.existingColumns) \cup Members(validation.missingColumns)
         = Members(columns)
    /\ validation.existingColumns
         = SelectSeq(columns, LAMBDA c : c \in Members(validation.existingColumns))
    /\ validation.missingColumns
         = SelectSeq(columns, LAMBDA c : c \in Members(validation.missingColumns))
    /\ validation.addedColumns = validation.missingColumns

----------------------------------------------------------------------------
(* processListaPreciosTradicionalWorksheet: rows with both prices or none *)

\* the cell of the data row under a header, parsed as the transform parses it
ParsedUnder(grid, name) == parseNumericValue(Coalesce(CellUnder(grid, 2, name), SN))

\* Rule 3 on a row whose parsed prices are sin and con, outSin and outCon the
\* prices of its record
PricesSettled(sin, con, outSin, outCon) ==
    /\ (Truthy(sin) /\ Truthy(con)) => (outSin = sin /\ outCon = con)
    /\ (~Truthy(sin) /\ ~Truthy(con)) => (outSin = Whole(0) /\ outCon = Whole(0))
    /\ ~(outSin # sin /\ outCon # con)

\* C24: a row with both 'Precio Sin IVA' and 'Precio con IVA' present
\* (non-zero) keeps both parsed values even when they disagree, a row with
\* neither ends with both 0, and at most one of the two is derived per row.
C24_BothOrNeither ==
    fn = "processListaPreciosTradicionalWorksheet" =>
        PricesSettled(ParsedUnder(arg, "Precio Sin IVA"), ParsedUnder(arg, "Precio con IVA"),
                      RecGet(ret.val[1], "Precio Sin IVA"),
                      RecGet(ret.val[1], "Precio con IVA"))

\* a row with 100 without IVA, 110.5 with IVA and a rate of 21 was transformed
C24_InconsistentPricesKept ==
    /\ fn = "processListaPreciosTradicionalWorksheet"
    /\ CellUnder(arg, 2, "Precio Sin IVA") = Whole(100)
    /\ CellUnder(arg, 2, "% IVA") = Whole(21)
    /\ CellUnder(arg, 2, "Precio con IVA") = Num(110500)
    /\ RecGet(ret.val[1], "Precio con IVA") = Num(110500)

\* C25: in a record made from a grid with the manifest header order, 'Precio
\* Sin IVA', '% IVA' and 'Precio con IVA' are all numbers parsed by
\* parseNumericValue, and the rate of a derivation is the row's '% IVA' cell,
\* 21 only when that cell is absent, empty or the placeholder.
C25_ThreeNumbersAndRowRate ==
    (fn = "processListaPreciosTradicionalWorksheet" /\ arg[1] = S(TradicionalTexts)) =>
        /\ RecGet(ret.val[1], "% IVA") = ParsedUnder(arg, "% IVA")
        /\ RecGet(ret.val[1], "Precio Sin IVA").t = "num"
        /\ RecGet(ret.val[1], "Precio con IVA").t = "num"
        /\ (Truthy(ParsedUnder(arg, "Precio Sin IVA"))
              /\ ~Truthy(ParsedUnder(arg, "Precio con IVA"))) =>
               RecGet(ret.val[1], "Precio con IVA")
                 = PriceWithIva(ParsedUnder(arg, "Precio Sin IVA"), RowRate(arg))
        /\ (Truthy(ParsedUnder(arg, "Precio con IVA"))
              /\ ~Truthy(ParsedUnder(arg, "Precio Sin IVA"))) =>
               RecGet(ret.val[1], "Precio Sin IVA")
                 = PriceWithoutIva(ParsedUnder(arg, "Precio con IVA"), RowRate(arg))

\* the two prices of C25 alone: both are numbers, whatever the rate column
C25_PricesAreNumbers ==
    (fn = "processListaPreciosTradicionalWorksheet" /\ arg[1] = S(TradicionalTexts)) =>
        /\ RecGet(ret.val[1], "Precio Sin IVA").t = "num"
        /\ RecGet(ret.val[1], "Precio con IVA").t = "num"

\* C25 with the rate ahead of the two prices in the header
C25_RateFirstOrder ==
    (fn = "processListaPreciosTradicionalWorksheet" /\ arg[1] = S(RateFirstTexts)) =>
        /\ RecGet(ret.val[1], "% IVA") = ParsedUnder(arg, "% IVA")
        /\ (Truthy(ParsedUnder(arg, "Precio Sin IVA"))
              /\ ~Truthy(ParsedUnder(arg, "Precio con IVA"))) =>
               RecGet(ret.val[1], "Precio con IVA")
                 = PriceWithIva(ParsedUnder(arg, "Precio Sin IVA"), RowRate(arg))
        /\ (Truthy(ParsedUnder(arg, "Precio con IVA"))
              /\ ~Truthy(ParsedUnder(arg, "Precio Sin IVA"))) =>
               RecGet(ret.val[1], "Precio Sin IVA")
                 = PriceWithoutIva(ParsedUnder(arg, "Precio con IVA"), RowRate(arg))

----------------------------------------------------------------------------
(* parseNumericValue: properties *)

\* the text of a cell without quotes and white space
Unquoted(cell) == StripQuotesAndSpaces(cell.s)

\* a text that does not start as a number: after an optional sign there is
\* neither a digit nor a point followed by a digit
NotNumeric(s) ==
    LET p == IF CharAt(s, 1) = "-" \/ CharAt(s, 1) = "+" THEN 2 ELSE 1
    IN  /\ ~IsDigit(CharAt(s, p))
        /\ ~(CharAt(s, p) = "." /\ IsDigit(CharAt(s, p + 1)))

\* out is what parseNumericValue is to return for the cell: a multiple of
\* 0.01; a number rounded to 2 decimals, halves up; 0 for text that is not
\* numeric; the same for a text with or without quotes and white space, a
\* comma read as the decimal point
ParsedAsStated(cell, out) ==
    /\ out.t = "num"
    /\ out.n % 10 = 0
    /\ cell.t = "num" => (out.n - cell.n) \in (0 - 4)..5
    /\ cell.t = "undef" => out.n = 0
    /\ (cell.t = "str" /\ NotNumeric(Unquoted(cell))) => out.n = 0
    /\ cell.t = "str" => out = parseNumericValue(Str(Unquoted(cell)))
    /\ (cell.t = "str" /\ Unquoted(cell) = "2,322") => out = Num(2320)
    /\ (cell.t = "str" /\ Unquoted(cell) = "12.345") => out = Num(12350)
    /\ (cell.t = "str" /\ Unquoted(cell) = "12abc") => out = Num(12000)

\* C26: parseNumericValue is total: a number is returned rounded to 2
\* decimals, a text has quotes and white space removed and one comma replaced
\* by a point before it is parsed, unparseable text ('' and 'SN' included)
\* gives exactly 0, and every result is a multiple of 0.01.
C26_ParseTotal ==
    fn = "parseNumericValue" => ParsedAsStated(arg, ret.val)

\* C26 for the cells whose text does not hold the literal Infinity
C26_ExceptInfinity ==
    (fn = "parseNumericValue" /\ ~(arg.t = "str" /\ Includes(arg.s, "Infinity"))) =>
        ParsedAsStated(arg, ret.val)

----------------------------------------------------------------------------
(* processClientesWorksheet: which column each rule touches *)

\* the value a column of a row is to have in the record: Nombre and Direccion
\* joined under the first 'nombre' header, the mapped condition under the
\* first 'condicion' + 'iva' header, the cell itself elsewhere ('' kept on a
\* visita column, 'SN' for an absent cell); headers containing 'codigo' have
\* rules of their own
ColumnAsStated(grid, row, j, lower, ix, out) ==
    CASE Includes(lower, "codigo") -> TRUE
      [] j = ix.nombre /\ ix.direccion # 0 ->
             out = NombreDireccion(At(row, ix.nombre), At(row, ix.direccion))
      [] j = ix.condicionIva /\ ~(j = ix.nombre /\ ix.direccion # 0) ->
             out = mapCondicionIvaToKey(VisitaKept(At(row, j), Includes(lower, "visita")))
      [] OTHER -> out = VisitaKept(At(row, j), Includes(lower, "visita"))

\* every column of every record of the result is as stated
RecordsAsStated(grid, records, ix) ==
    \A r \in 1..Len(records) :
        \A j \in 1..Len(grid[1]) :
            ColumnAsStated(grid, grid[r + 1], j, ToLowerCase(JsString(grid[1][j])), ix,
                           RecGet(records[r], JsString(grid[1][j])))

\* the grid the records are made from: the grid given, 'Codigo Lista precios'
\* inserted before 'Visita Lunes' when no header holds it
GridWithPriceList(data, headers, ix) ==
    IF ix.codigoListaPrecios # 0 \/ ix.visitaLunes = 0 THEN data
    ELSE <<S(Splice(headers, ix.visitaLunes, "Codigo Lista precios"))>>
         \o Tail(ClientesInsertedRows(data, ix.visitaLunes))

ProcessedGrid(data) ==
    GridWithPriceList(data, HeaderTexts(data), ClientesIndices(LowerTexts(HeaderTexts(data))))

\* C28: for any column order, also when processClientesWorksheet itself
\* inserts 'Codigo Lista precios' before 'Visita Lunes', the Nombre rule is
\* applied to exactly the column whose header contains 'nombre', reading that
\* row's Nombre and Direccion cells, the Condicion Iva mapping to exactly the
\* column whose header contains 'condicion' and 'iva', and no other column is
\* altered by those rules.
C28_RulesOnTheirColumns ==
    (fn = "processClientesWorksheet" /\ ~ret.val.threw) =>
        RecordsAsStated(ProcessedGrid(arg.data), ret.val.value,
                        ClientesIndices(LowerTexts(HeaderTexts(ProcessedGrid(arg.data)))))

\* C28 for the grids in which no column is inserted to the left of the Nombre,
\* Direccion and Condicion Iva columns
C28_ExceptInsertionToTheLeft ==
    (/\ fn = "processClientesWorksheet" /\ ~ret.val.threw
     /\ arg.data[1] # S(<<"Codigo", "Visita Lunes", "Nombre", "Direccion",
                         "Condicion Iva", "Telefono">>)) =>
        RecordsAsStated(ProcessedGrid(arg.data), ret.val.value,
                        ClientesIndices(LowerTexts(HeaderTexts(ProcessedGrid(arg.data)))))

----------------------------------------------------------------------------
(* processClientesWorksheet: absent and empty cells *)

\* the columns with rules of their own: Codigo, Codigo Lista precios, Nombre,
\* Condicion Iva
HasOwnRule(lower) ==
    \/ Includes(lower, "codigo") \/ Includes(lower, "nombre")
    \/ (Includes(lower, "condicion") /\ Includes(lower, "iva"))

\* out is the default of C27 for the cell of a column without a rule of its
\* own: '' on a visita column whose cell is absent or empty, 'SN' on another
\* column whose cell is absent
DefaultAsStated(cell, lower, out) ==
    IF Includes(lower, "visita")
    THEN (cell = Undef \/ cell = Str("")) => out = Str("")
    ELSE cell = Undef => out = SN

DefaultsAsStated(grid, records) ==
    \A r \in 1..Len(records) :
        \A j \in 1..Len(grid[1]) :
            ~HasOwnRule(ToLowerCase(JsString(grid[1][j]))) =>
                DefaultAsStated(At(grid[r + 1], j), ToLowerCase(JsString(grid[1][j])),
                                RecGet(records[r], JsString(grid[1][j])))

\* C27: for every data row, a column whose header contains 'visita' and
\* whose cell is absent or empty gets '' and never 'SN'; every other column
\* (Codigo, Nombre, Codigo Lista precios and Condicion Iva apart) whose cell
\* is absent gets 'SN'.
C27_VisitaEmptyOthersSN ==
    (fn = "processClientesWorksheet" /\ ~ret.val.threw) =>
        DefaultsAsStated(arg.data, ret.val.value)

\* C27 for the grids that hold 'Codigo Lista precios', into which
\* processClientesWorksheet inserts nothing
C27_ExceptOwnInsertion ==
    (/\ fn = "processClientesWorksheet" /\ ~ret.val.threw
     /\ HeaderNamed(arg.data, "Codigo Lista precios") # 0) =>
        DefaultsAsStated(arg.data, ret.val.value)

----------------------------------------------------------------------------
(* useExcelProcessor: properties *)

\* isProcessing is true while a call awaits processExcelFiles
BusyWhilePending == hook.pending # {} => hook.isProcessing

\* isProcessing is false once every call has finished
IdleWhenDone == hook.pending = {} => ~hook.isProcessing

\* results that are not empty are shown with their own summary
SummaryOfResults ==
    hook.results # <<>> => hook.resultsSummary = formatProcessingResults(hook.results)

\* C30: under any interleaving of processFiles calls (overlapping ones
\* included), clearResults and clearError, isProcessing is true while a call
\* with a non-empty file list has started and not finished, false once all
\* calls have finished (also after an exception), and results that are not
\* empty come with the formatProcessingResults text of the same call.
C30_HookConsistent == BusyWhilePending /\ IdleWhenDone /\ SummaryOfResults

\* C30 as long as no call was started while another was pending
C30_ExceptOverlap ==
    ~hook.overlapped => (BusyWhilePending /\ IdleWhenDone /\ SummaryOfResults)

\* the two parts of C30 that overlapping calls leave intact
C30_IdleAndSummary == IdleWhenDone /\ SummaryOfResults

====
